---- MODULE Spec2Model ----
(***************************************************************************)
(* DRC-IO: dynamic I/O prioritisation of co-located pods.                  *)
(*                                                                         *)
(* Three programs of the repository are modelled:                          *)
(*   - the weight controller  (src/docker/drcio/controller.py),            *)
(*   - the threaded controller (src/drcio-eks-demo/docker/drcio/           *)
(*     controller.py),                                                     *)
(*   - the node agent (src/drc_io_agent/*.py).                             *)
(* Each has its own specification over the shared variables; the variables *)
(* a specification does not use keep their initial value.                  *)
(*                                                                         *)
(* Conventions.  A Python Optional is a sequence: None is <<>> and a value *)
(* v is <<v>>.  Latencies are whole milliseconds and the comparisons with  *)
(* threshold * 1.3 etc. are done in exact arithmetic (scaled by 10); the   *)
(* rounding of the float products is not modelled.  Wall-clock time is     *)
(* whole seconds.  An environment option is an Optional integer (the text  *)
(* already parsed by int(); an unparsable text stops the process at        *)
(* import, before any state exists).                                       *)
(***************************************************************************)
EXTENDS Integers, Sequences, FiniteSets, TLC

VARIABLES
    environ,               \* os.environ: the options the process was started with
    cluster,               \* what the cluster API reports: pod -> [phase, label]
    now,                   \* time.time()
    running,               \* the module-level stop flag (all three programs)
    exit_code,             \* the status the process exited with; None while it is alive
    \* ---- weight controller (DRCIOController) ----
    hp_weight,
    lp_weight,
    adjustment_count,
    last_adjustment_time,
    metrics,               \* the prometheus_client gauges and counters
    iteration,             \* run()'s local
    tick,                  \* what the last control_loop_iteration did (observation)
    \* ---- functions applied on their own ----
    calc,                  \* one call of calculate_weights
    call,                  \* one call of apply_io_weight
    limit,                 \* apply_io_limit on one io.max file
    \* ---- threaded controller (drcio-eks-demo) ----
    shutdown_requested,
    cgroup_v2_enabled,     \* CgroupIOManager.cgroup_v2_enabled
    managed_pods,          \* the dict pod_uid -> pod_info, in insertion order
    io_weight_file,        \* pod -> the weight on the "default" line of its io.weight
    control_pass,          \* what the last pass of _control_loop did (observation)
    ACTIVE_PODS,           \* the drcio_active_pods gauge, per priority
    items_iter,            \* the iterator of the loop over self.managed_pods.items()
    \* ---- node agent (drc_io_agent) ----
    agent_pc,              \* where controller_loop is: "start", "loop" or "exited"
    device,                \* controller_loop's local; None while it is unbound
    controller_state,
    agent_pass,            \* what the last pass of controller_loop did (observation)
    observer               \* what the HTTP handlers returned (observation)

envVars == << environ, cluster >>
weightVars == << hp_weight, lp_weight, adjustment_count, last_adjustment_time, metrics,
                 iteration, tick >>
eksVars == << shutdown_requested, cgroup_v2_enabled, managed_pods, io_weight_file,
              control_pass, ACTIVE_PODS, items_iter >>
agentVars == << agent_pc, device, controller_state, agent_pass, observer >>
pureVars == << calc, call, limit >>

vars == << envVars, now, running, exit_code, weightVars, pureVars, eksVars, agentVars >>

\* --------------------------------------------------------------------------
\* Bounds of the model
\* --------------------------------------------------------------------------
\* latencies tried on the control law: 0 .. MaxLatency ms
MaxLatency == 700
\* no iteration starts after this wall-clock second
MaxTime == 13
\* the clock at process start (seconds since the epoch, positive)
StartTime == 1
\* the cgroup writes of one adjustment take 0 .. MaxApplyDelay seconds
MaxApplyDelay == 1
\* apply_io_weight on its own: up to MaxTargets io.weight files under a pod
MaxTargets == 3
\* apply_io_limit on its own: an io.max file of up to MaxLines lines, and up to
\* MaxCalls calls on it
MaxLines == 2
MaxCalls == 2

\* --------------------------------------------------------------------------
\* Python helpers
\* --------------------------------------------------------------------------
None == << >>
Some(v) == << v >>

\* bool(x) of an Optional[float]: None and 0.0 are both false
Truthy(o) == o # None /\ o[1] # 0

Max(a, b) == IF a >= b THEN a ELSE b
Min(a, b) == IF a <= b THEN a ELSE b

\* os.getenv(name, default)
Getenv(name, default) == IF environ[name] = None THEN default ELSE environ[name][1]

\* the elements of a sequence
Range(s) == { s[i] : i \in 1..Len(s) }

RECURSIVE Concat(_)
\* the concatenation of a sequence of sequences
Concat(ss) == IF ss = << >> THEN << >> ELSE Head(ss) \o Concat(Tail(ss))

\* --------------------------------------------------------------------------
\* Configuration of the weight controller
\* --------------------------------------------------------------------------
DEFAULT_SLA_THRESHOLD_MS == 500
DEFAULT_CONTROL_LOOP_INTERVAL == 5
DEFAULT_MIN_IO_WEIGHT == 100
DEFAULT_MAX_IO_WEIGHT == 1000
DEFAULT_ADJUSTMENT_COOLDOWN == 10

SLA_THRESHOLD_MS == Getenv("SLA_THRESHOLD_MS", DEFAULT_SLA_THRESHOLD_MS)
CONTROL_LOOP_INTERVAL == Getenv("CONTROL_LOOP_INTERVAL", DEFAULT_CONTROL_LOOP_INTERVAL)
MIN_IO_WEIGHT == Max(1, Getenv("MIN_IO_WEIGHT", DEFAULT_MIN_IO_WEIGHT))
MAX_IO_WEIGHT == Min(1000, Getenv("MAX_IO_WEIGHT", DEFAULT_MAX_IO_WEIGHT))
ADJUSTMENT_COOLDOWN == Getenv("ADJUSTMENT_COOLDOWN", DEFAULT_ADJUSTMENT_COOLDOWN)

EnvNames == { "SLA_THRESHOLD_MS", "CONTROL_LOOP_INTERVAL", "MIN_IO_WEIGHT",
              "MAX_IO_WEIGHT", "ADJUSTMENT_COOLDOWN" }

\* the process started with no option set
DefaultEnviron == [ n \in EnvNames |-> None ]

\* --------------------------------------------------------------------------
\* Control law
\* --------------------------------------------------------------------------
\* the pair chosen by the if/elif chain of calculate_weights, before clamping
\* (a variant with the rows of two neighbouring bands exchanged)
weights_exchanged(current_latency_ms, threshold) ==
    IF current_latency_ms * 10 > threshold * 13 THEN << 900, 100 >>
    ELSE IF current_latency_ms * 10 > threshold * 11 THEN << 800, 200 >>
    ELSE IF current_latency_ms > threshold THEN << 700, 300 >>
    ELSE IF current_latency_ms * 10 > threshold * 8 THEN << 750, 250 >>
    ELSE IF current_latency_ms * 10 > threshold * 6 THEN << 600, 400 >>
    ELSE << 500, 500 >>
\* (a variant with the top boundary closed)
weights_mut(current_latency_ms, threshold) ==
    IF current_latency_ms * 10 >= threshold * 13 THEN << 900, 100 >>
    ELSE IF current_latency_ms * 10 > threshold * 11 THEN << 800, 200 >>
    ELSE IF current_latency_ms > threshold THEN << 750, 250 >>
    ELSE IF current_latency_ms * 10 > threshold * 8 THEN << 700, 300 >>
    ELSE IF current_latency_ms * 10 > threshold * 6 THEN << 600, 400 >>
    ELSE << 500, 500 >>
weights(current_latency_ms, threshold) ==
    IF current_latency_ms * 10 > threshold * 13 THEN << 900, 100 >>
    ELSE IF current_latency_ms * 10 > threshold * 11 THEN << 800, 200 >>
    ELSE IF current_latency_ms > threshold THEN << 750, 250 >>
    ELSE IF current_latency_ms * 10 > threshold * 8 THEN << 700, 300 >>
    ELSE IF current_latency_ms * 10 > threshold * 6 THEN << 600, 400 >>
    ELSE << 500, 500 >>

_clamp_weight(weight) == Max(MIN_IO_WEIGHT, Min(MAX_IO_WEIGHT, weight))

calculate_weights(current_latency_ms) ==
    LET w == weights(current_latency_ms, SLA_THRESHOLD_MS)
    IN  << _clamp_weight(w[1]), _clamp_weight(w[2]) >>

\* --------------------------------------------------------------------------
\* The control law on its own: every option value, every latency
\* --------------------------------------------------------------------------
LawMinEnv == { None, Some(-5), Some(1), Some(650), Some(1000), Some(2000) }
LawMaxEnv == { None, Some(0), Some(550), Some(1000), Some(5000) }
LawThresholds == { None, Some(10) }

NoCalc == [ called |-> FALSE, latency |-> 0, weights |-> << 500, 500 >>,
            result |-> << 500, 500 >> ]

NoTick == [ outcome |-> "none", api_ok |-> TRUE, hp_pods |-> << >>, lp_pods |-> << >>,
            queried |-> FALSE, response |-> "none", latency |-> None,
            new |-> None, missing |-> << >>, writes |-> << >>, errors |-> << >> ]

NoMetrics == [ drcio_hp_weight |-> 0, drcio_lp_weight |-> 0,
               drcio_hp_latency_ms |-> 0, drcio_adjustments_total |-> 0,
               drcio_last_adjustment_ts |-> 0,
               drcio_pod_count |-> [ hp |-> 0, lp |-> 0 ] ]

NoControlPass == [ writes |-> << >>, gauge |-> << >> ]

\* apply_io_weight not called yet
NoCall == [ called |-> FALSE, cg |-> [ dir |-> FALSE, targets |-> << >> ], weight |-> 0,
            success |-> FALSE, writes |-> << >>, errors |-> << >> ]

\* no io.max file under consideration
NoLimit == [ pc |-> "none", device |-> << >>, rbps |-> "", wbps |-> "",
             file |-> None, old |-> None, pending |-> << >>, results |-> << >> ]

\* no HTTP request served yet
NoObserver == [ pre |-> None, mid |-> None, response |-> None, torn |-> FALSE ]

\* no loop over the pod table is under way
NoIterator == [ loop |-> "none", di_used |-> 0, di_pos |-> 0, raised |-> FALSE ]

\* the values the priority of a tracked pod takes
Priorities == { "high", "medium", "low" }

\* the threaded controller after DRCIOController.__init__
EksConstructed(v2, files) ==
    /\ shutdown_requested = FALSE
    /\ cgroup_v2_enabled = v2
    /\ managed_pods = << >>
    /\ io_weight_file = files
    /\ control_pass = NoControlPass
    /\ ACTIVE_PODS = [ priority \in Priorities |-> 0 ]
    /\ items_iter = NoIterator

NoAgentPass == [ outcome |-> "none", writes |-> << >> ]

\* the node agent's module-level state
AgentLoaded ==
    /\ agent_pc = "start"
    /\ device = None
    /\ controller_state = [ high_priority_pods |-> << >>, low_priority_pods |-> << >>,
                            cgroups_with_limits |-> { }, last_update |-> None,
                            error_count |-> 0, last_error |-> None ]
    /\ agent_pass = NoAgentPass
    /\ observer = NoObserver

\* the programs as loaded, but for the io.max file under consideration
Loaded(env, pods) ==
    /\ environ = env
    /\ cluster = pods
    /\ now = StartTime
    /\ running = TRUE
    /\ exit_code = None
    /\ call = NoCall
    /\ EksConstructed(TRUE, << >>)
    /\ AgentLoaded
    /\ hp_weight = 500
    /\ lp_weight = 500
    /\ adjustment_count = 0
    /\ last_adjustment_time = None
    /\ metrics = NoMetrics
    /\ iteration = 0
    /\ tick = NoTick
    /\ calc = NoCalc

\* DRCIOController.__init__ and the module-level state, for one environment
Constructed(env, pods) == Loaded(env, pods) /\ limit = NoLimit

NoPods == << >>

InitLaw ==
    \E mn \in LawMinEnv, mx \in LawMaxEnv, th \in LawThresholds :
        Constructed([ DefaultEnviron EXCEPT !["MIN_IO_WEIGHT"] = mn,
                                            !["MAX_IO_WEIGHT"] = mx,
                                            !["SLA_THRESHOLD_MS"] = th ], NoPods)

\* one call of calculate_weights (a pure function: one call per run suffices)
Calculate ==
    \E L \in 0..MaxLatency :
        /\ ~calc.called
        /\ calc' = [ called |-> TRUE, latency |-> L,
                     weights |-> weights(L, SLA_THRESHOLD_MS),
                     result |-> calculate_weights(L) ]
        /\ UNCHANGED << envVars, now, running, exit_code, weightVars, call, limit,
                        eksVars, agentVars >>

NextLaw == Calculate

SpecLaw == InitLaw /\ [][NextLaw]_vars

\* --------------------------------------------------------------------------
\* The cluster as the weight controller and the node agent see it
\* --------------------------------------------------------------------------
Pods == { "p1", "p2" }
\* the order of pods.items in a list response
PodItems == << "p1", "p2" >>

Phases == { "Running", "Pending", "Succeeded" }
\* the value of the group-id label ("none": the pod carries no such label)
GroupIds == { "hp", "lp", "none" }

\* the node the program runs on (NODE_NAME) and another node of the cluster
node_name == "node-a"
Nodes == { "node-a", "node-b" }

PodStates == [ phase : Phases, label : GroupIds, node : Nodes ]
Clusters == [ Pods -> PodStates ]

\* the clusters the weight controller is run against, all in its namespace: to
\* it a pod is Running or it is not, and Pending stands for every other phase;
\* the first pod is Running on the controller's node, the second is in either
\* phase on either node
WeightClusters ==
    { c \in Clusters : /\ c["p1"].phase = "Running" /\ c["p1"].node = node_name
                       /\ c["p2"].phase # "Succeeded" }

\* --------------------------------------------------------------------------
\* Weight controller: pod discovery
\* --------------------------------------------------------------------------
\* (a variant that counts no error when the listing fails)
discover_pods_mut(api_ok) ==
    IF ~api_ok
    THEN [ ok |-> FALSE, hp_pods |-> << >>, lp_pods |-> << >>, errors |-> << >> ]
    ELSE [ ok |-> TRUE,
           hp_pods |-> SelectSeq(PodItems, LAMBDA p :
                           cluster[p].phase = "Running" /\ cluster[p].label = "hp"),
           lp_pods |-> SelectSeq(PodItems, LAMBDA p :
                           cluster[p].phase = "Running" /\ cluster[p].label = "lp"),
           errors |-> << >> ]
\* api_ok = FALSE: list_namespaced_pod raised
discover_pods(api_ok) ==
    IF ~api_ok
    THEN [ ok |-> FALSE, hp_pods |-> << >>, lp_pods |-> << >>,
           errors |-> << "pod_discovery" >> ]
    ELSE [ ok |-> TRUE,
           hp_pods |-> SelectSeq(PodItems, LAMBDA p :
                           cluster[p].phase = "Running" /\ cluster[p].label = "hp"),
           lp_pods |-> SelectSeq(PodItems, LAMBDA p :
                           cluster[p].phase = "Running" /\ cluster[p].label = "lp"),
           errors |-> << >> ]

\* the drcio_pod_count gauges after discover_pods
pod_count_after(d) ==
    IF d.ok
    THEN [ metrics EXCEPT !.drcio_pod_count =
               [ hp |-> Len(d.hp_pods), lp |-> Len(d.lp_pods) ] ]
    ELSE metrics

\* --------------------------------------------------------------------------
\* Weight controller: latency source
\* --------------------------------------------------------------------------
\* What the Prometheus query can come back with.  The sample of an "ok"
\* response is in twentieths of a second (fixed point for the float seconds).
PromSamples == { 4, 7, 10, 11, 12, 13, 14 }
PromFailures == { "request_exception", "invalid_json", "not_success", "no_data",
                  "bad_value", "short_value" }
PromResponses ==
    [ kind : { "ok" }, value : PromSamples ] \cup [ kind : PromFailures, value : { 0 } ]

\* latency_ms = latency_seconds * 1000
latency_ms_of(latency_seconds) == (latency_seconds * 1000) \div 20

get_hp_latency_mut(response) ==
    CASE response.kind = "request_exception" ->
            [ raised |-> FALSE, latency |-> None, errors |-> << "prometheus_query" >> ]
      [] response.kind = "invalid_json" ->
            [ raised |-> TRUE, latency |-> None, errors |-> << >> ]
      [] response.kind = "not_success" ->
            [ raised |-> FALSE, latency |-> None, errors |-> << >> ]
      [] response.kind = "no_data" ->             \* fails forward instead of None
            [ raised |-> FALSE, latency |-> Some(2 * SLA_THRESHOLD_MS), errors |-> << >> ]
      [] response.kind = "bad_value" ->
            [ raised |-> FALSE, latency |-> None, errors |-> << "prometheus_parse" >> ]
      [] response.kind = "short_value" ->
            [ raised |-> TRUE, latency |-> None, errors |-> << >> ]
      [] OTHER ->
            [ raised |-> FALSE, latency |-> Some(latency_ms_of(response.value)),
              errors |-> << >> ]
get_hp_latency(response) ==
    CASE response.kind = "request_exception" ->
            [ raised |-> FALSE, latency |-> None, errors |-> << "prometheus_query" >> ]
      [] response.kind = "invalid_json" ->        \* response.json() raises, uncaught here
            [ raised |-> TRUE, latency |-> None, errors |-> << >> ]
      [] response.kind = "not_success" ->
            [ raised |-> FALSE, latency |-> None, errors |-> << >> ]
      [] response.kind = "no_data" ->
            [ raised |-> FALSE, latency |-> None, errors |-> << >> ]
      [] response.kind = "bad_value" ->           \* KeyError, ValueError, TypeError
            [ raised |-> FALSE, latency |-> None, errors |-> << "prometheus_parse" >> ]
      [] response.kind = "short_value" ->         \* IndexError is not in the except list
            [ raised |-> TRUE, latency |-> None, errors |-> << >> ]
      [] OTHER ->
            [ raised |-> FALSE, latency |-> Some(latency_ms_of(response.value)),
              errors |-> << >> ]

\* the drcio_hp_latency_ms gauge after get_hp_latency
latency_gauge_after(m, r) ==
    IF r.latency = None THEN m ELSE [ m EXCEPT !.drcio_hp_latency_ms = r.latency[1] ]

\* --------------------------------------------------------------------------
\* Weight controller: cgroup writes
\* --------------------------------------------------------------------------
\* What apply_io_weight finds for one pod: whether get_cgroup_path finds a
\* directory, and for each io.weight file under it (the pod's own, then each
\* subdirectory's) what open/write does.  (A directory holding no io.weight
\* file gives the controller the same result as no directory; ApplyCgroupStates
\* below has both.)
CgroupStates ==
    { [ dir |-> FALSE, targets |-> << >> ],
      [ dir |-> TRUE, targets |-> << "ok" >> ],
      [ dir |-> TRUE, targets |-> << "denied" >> ],
      [ dir |-> TRUE, targets |-> << "oserror", "ok" >> ] }

\* the cgroup of a pod of another node is not in this node's /sys/fs/cgroup
CgroupStatesOf(p) ==
    IF cluster[p].node = node_name THEN CgroupStates
    ELSE { [ dir |-> FALSE, targets |-> << >> ] }

\* what the filesystem can hold for each pod of a list
CgroupsOf(pods) ==
    { fs \in [ pods -> CgroupStates ] : \A p \in pods : fs[p] \in CgroupStatesOf(p) }

\* the bytes written to an io.weight file (without the newline)
io_weight_line(weight) == << "default", weight >>

\* one open/write of apply_io_weight's loop
write_target(pod_info, weight, i, status) ==
    [ pod |-> pod_info, target |-> i, line |-> io_weight_line(weight),
      ok |-> (status = "ok") ]

\* (a variant that gives up at the first failed write)
apply_io_weight_mut(pod_info, weight, cg) ==
    LET n == IF \E i \in 1..Len(cg.targets) : cg.targets[i] # "ok"
             THEN CHOOSE i \in 1..Len(cg.targets) :
                      /\ cg.targets[i] # "ok"
                      /\ \A j \in 1..(i - 1) : cg.targets[j] = "ok"
             ELSE Len(cg.targets)
    IN  IF ~cg.dir \/ cg.targets = << >>
        THEN [ success |-> FALSE, writes |-> << >>, errors |-> << >> ]
        ELSE [ success |-> \E i \in 1..n : cg.targets[i] = "ok",
               writes |-> [ i \in 1..n |-> write_target(pod_info, weight, i, cg.targets[i]) ],
               errors |-> Concat([ i \in 1..n |->
                              CASE cg.targets[i] = "denied" -> << "permission_denied" >>
                                [] cg.targets[i] = "oserror" -> << "io_weight_write" >>
                                [] OTHER -> << >> ]) ]
apply_io_weight(pod_info, weight, cg) ==
    IF ~cg.dir \/ cg.targets = << >>
    THEN [ success |-> FALSE, writes |-> << >>, errors |-> << >> ]
    ELSE [ success |-> \E i \in 1..Len(cg.targets) : cg.targets[i] = "ok",
           writes |-> [ i \in 1..Len(cg.targets) |->
                          write_target(pod_info, weight, i, cg.targets[i]) ],
           errors |-> Concat([ i \in 1..Len(cg.targets) |->
                          CASE cg.targets[i] = "denied" -> << "permission_denied" >>
                            [] cg.targets[i] = "oserror" -> << "io_weight_write" >>
                            [] OTHER -> << >> ]) ]

\* apply_io_weight on its own: every combination of outcomes of up to
\* MaxTargets writes
ApplyTargetStates == { "ok", "denied", "oserror" }
ApplyCgroupStates ==
    { [ dir |-> FALSE, targets |-> << >> ] } \cup
    { [ dir |-> TRUE, targets |-> t ] :
        t \in UNION { [ 1..n -> ApplyTargetStates ] : n \in 0..MaxTargets } }
ApplyWeights == { 1, 500, 1000 }

InitApply == Constructed(DefaultEnviron, NoPods)

\* one call of apply_io_weight
ApplyIoWeight ==
    \E cg \in ApplyCgroupStates, weight \in ApplyWeights :
        LET r == apply_io_weight("p1", weight, cg)
        IN  /\ ~call.called
            /\ call' = [ called |-> TRUE, cg |-> cg, weight |-> weight,
                         success |-> r.success, writes |-> r.writes, errors |-> r.errors ]
            /\ UNCHANGED << envVars, now, running, exit_code, weightVars, calc, limit,
                            eksVars, agentVars >>

NextApply == ApplyIoWeight

SpecApply == InitApply /\ [][NextApply]_vars

\* apply_io_weight over a list of pods, in order
apply_all(pods, weight, fs) ==
    [ i \in 1..Len(pods) |-> apply_io_weight(pods[i], weight, fs[pods[i]]) ]

\* --------------------------------------------------------------------------
\* Weight controller: one iteration of run()
\* --------------------------------------------------------------------------
\* `if not hp_pods: return`
no_hp_pods_mut(d) == d.hp_pods = << >> /\ d.lp_pods = << >>
no_hp_pods(d) == d.hp_pods = << >>

\* `new_hp_weight == self.hp_weight and new_lp_weight == self.lp_weight`
\* (a variant that keeps the weights only while the cooldown runs)
same_weights_mut(new) ==
    /\ new[1] = hp_weight /\ new[2] = lp_weight
    /\ Truthy(last_adjustment_time)
    /\ now - last_adjustment_time[1] < ADJUSTMENT_COOLDOWN
same_weights(new) == new[1] = hp_weight /\ new[2] = lp_weight

\* `if self.last_adjustment_time: ... if elapsed < ADJUSTMENT_COOLDOWN: return`
in_cooldown_mut(time_time) ==
    /\ Truthy(last_adjustment_time)
    /\ time_time - last_adjustment_time[1] < CONTROL_LOOP_INTERVAL
\* (a variant in which the cooldown never ends)
in_cooldown_forever(time_time) == Truthy(last_adjustment_time)
in_cooldown(time_time) ==
    /\ Truthy(last_adjustment_time)
    /\ time_time - last_adjustment_time[1] < ADJUSTMENT_COOLDOWN

\* the gauges and the counter set at the end of _apply_new_weights
export_adjustment_mut(m, new_hp_weight, new_lp_weight, ts) ==
    [ m EXCEPT !.drcio_hp_weight = new_lp_weight,
               !.drcio_lp_weight = new_hp_weight,
               !.drcio_adjustments_total = @ + 1,
               !.drcio_last_adjustment_ts = ts ]
export_adjustment(m, new_hp_weight, new_lp_weight, ts) ==
    [ m EXCEPT !.drcio_hp_weight = new_hp_weight,
               !.drcio_lp_weight = new_lp_weight,
               !.drcio_adjustments_total = @ + 1,
               !.drcio_last_adjustment_ts = ts ]

\* the `except Exception` clause of run(): the error is counted, nothing else
except_Exception_mut(t) == [ t EXCEPT !.outcome = "raised" ]
except_Exception(t) ==
    [ t EXCEPT !.outcome = "raised", !.errors = @ \o << "control_loop" >> ]

\* control_loop_iteration returned early (or raised) at time `end`; run() then sleeps
Returned(t, m, end) ==
    /\ tick' = t
    /\ metrics' = m
    /\ now' = end + CONTROL_LOOP_INTERVAL
    /\ UNCHANGED << hp_weight, lp_weight, adjustment_count, last_adjustment_time >>

\* (a variant that writes the LP pods first)
_apply_new_weights_mut(t, m, hp_pods, lp_pods, new_hp_weight, new_lp_weight, fs, end) ==
    LET hp == apply_all(hp_pods, new_hp_weight, fs)
        lp == apply_all(lp_pods, new_lp_weight, fs)
        all == lp \o hp
    IN  /\ tick' = [ t EXCEPT !.outcome = "applied",
                              !.missing = SelectSeq(hp_pods \o lp_pods,
                                                    LAMBDA p : ~fs[p].dir),
                              !.writes = Concat([ i \in 1..Len(all) |-> all[i].writes ]),
                              !.errors = @ \o Concat([ i \in 1..Len(all) |-> all[i].errors ]) ]
        /\ hp_weight' = new_hp_weight
        /\ lp_weight' = new_lp_weight
        /\ adjustment_count' = adjustment_count + 1
        /\ last_adjustment_time' = Some(end)
        /\ metrics' = export_adjustment(m, new_hp_weight, new_lp_weight, end)
        /\ now' = end + CONTROL_LOOP_INTERVAL
\* _apply_new_weights: the writes, then the unconditional commit at time `end`
_apply_new_weights(t, m, hp_pods, lp_pods, new_hp_weight, new_lp_weight, fs, end) ==
    LET hp == apply_all(hp_pods, new_hp_weight, fs)
        lp == apply_all(lp_pods, new_lp_weight, fs)
        all == hp \o lp
    IN  /\ tick' = [ t EXCEPT !.outcome = "applied",
                              !.missing = SelectSeq(hp_pods \o lp_pods,
                                                    LAMBDA p : ~fs[p].dir),
                              !.writes = Concat([ i \in 1..Len(all) |-> all[i].writes ]),
                              !.errors = @ \o Concat([ i \in 1..Len(all) |-> all[i].errors ]) ]
        /\ hp_weight' = new_hp_weight
        /\ lp_weight' = new_lp_weight
        /\ adjustment_count' = adjustment_count + 1
        /\ last_adjustment_time' = Some(end)
        /\ metrics' = export_adjustment(m, new_hp_weight, new_lp_weight, end)
        /\ now' = end + CONTROL_LOOP_INTERVAL

\* One pass of the `while running` loop of run(): control_loop_iteration, the
\* except clause, and the sleep.  `now` is the time of the cooldown check.
\* Apply is what happens once control_loop_iteration has got past the cooldown
\* test.  (What the pass leaves in the io.weight files is added by the actions
\* below.)
loop_pass(Apply(_, _, _, _)) ==
    /\ running
    /\ exit_code = None
    /\ now <= MaxTime
    /\ iteration' = iteration + 1
    /\ UNCHANGED << envVars, running, exit_code, pureVars, agentVars,
                    shutdown_requested, cgroup_v2_enabled, managed_pods, control_pass,
                    ACTIVE_PODS, items_iter >>
    /\ \E api_ok \in BOOLEAN :
        LET d == discover_pods(api_ok)
            m1 == pod_count_after(d)
            t1 == [ NoTick EXCEPT !.api_ok = api_ok, !.hp_pods = d.hp_pods,
                                  !.lp_pods = d.lp_pods, !.errors = d.errors ]
        IN
        IF no_hp_pods(d)
        THEN Returned([ t1 EXCEPT !.outcome = "no_hp" ], m1, now)
        ELSE \E response \in PromResponses :
            LET r == get_hp_latency(response)
                m2 == latency_gauge_after(m1, r)
                t2 == [ t1 EXCEPT !.queried = TRUE, !.response = response.kind,
                                  !.latency = r.latency, !.errors = @ \o r.errors ]
            IN
            IF r.raised
            THEN Returned(except_Exception(t2), m2, now)
            ELSE IF r.latency = None
            THEN Returned([ t2 EXCEPT !.outcome = "no_latency" ], m2, now)
            ELSE
                LET new == calculate_weights(r.latency[1])
                    t3 == [ t2 EXCEPT !.new = Some(new) ]
                IN
                IF same_weights(new)
                THEN Returned([ t3 EXCEPT !.outcome = "unchanged" ], m2, now)
                ELSE IF in_cooldown(now)
                THEN Returned([ t3 EXCEPT !.outcome = "cooldown" ], m2, now)
                ELSE Apply(t3, m2, d, new)

\* the call of _apply_new_weights, which returns `delay` seconds later
apply_now(t, m, d, new) ==
    \E fs \in CgroupsOf(Range(d.hp_pods) \cup Range(d.lp_pods)),
       delay \in 0..MaxApplyDelay :
        _apply_new_weights(t, m, d.hp_pods, d.lp_pods, new[1], new[2], fs, now + delay)

\* a pass of the loop as one step
while_running == loop_pass(apply_now)

\* a pass of the loop, the contents of the io.weight files not being followed
run == while_running /\ UNCHANGED io_weight_file

\* `while running` is false: run() returns, main() returns, the interpreter exits
run_return ==
    /\ ~running
    /\ exit_code = None
    /\ exit_code' = Some(0)
    /\ UNCHANGED << envVars, now, running, weightVars, pureVars, eksVars, agentVars >>

\* SIGTERM or SIGINT
signal_handler ==
    /\ running
    /\ exit_code = None
    /\ running' = FALSE
    /\ UNCHANGED << envVars, now, exit_code, weightVars, pureVars, eksVars, agentVars >>

WeightEnvirons ==
    { DefaultEnviron,
      [ DefaultEnviron EXCEPT !["MIN_IO_WEIGHT"] = Some(2000) ],
      [ DefaultEnviron EXCEPT !["MIN_IO_WEIGHT"] = Some(500), !["MAX_IO_WEIGHT"] = Some(500) ],
      [ DefaultEnviron EXCEPT !["MIN_IO_WEIGHT"] = Some(300), !["MAX_IO_WEIGHT"] = Some(300) ] }

Init == \E env \in WeightEnvirons, pods \in WeightClusters : Constructed(env, pods)

Next == run \/ run_return \/ signal_handler

Spec == Init /\ [][Next]_vars

\* the loop and the return are the process's own steps; a signal may never come
FairSpec == Spec /\ WF_vars(run) /\ WF_vars(run_return)

\* --------------------------------------------------------------------------
\* Properties of the weight controller
\* --------------------------------------------------------------------------
\* the step is one pass of run()'s loop
IsIteration == iteration' # iteration

\* the pass left the setpoint, the timestamp and the adjustment counter alone
ControllerStateKept ==
    /\ hp_weight' = hp_weight
    /\ lp_weight' = lp_weight
    /\ last_adjustment_time' = last_adjustment_time
    /\ adjustment_count' = adjustment_count

NoWriteSucceeded(t) == \A i \in 1..Len(t.writes) : ~t.writes[i].ok

\* C1: a tick that reaches the apply step and in which no io.weight write
\* succeeds leaves the stored setpoint, the last-adjustment timestamp and the
\* adjustment counter as they were.
C1_FailedApplyKeepsState ==
    [][ (IsIteration /\ tick'.outcome = "applied" /\ NoWriteSucceeded(tick'))
            => ControllerStateKept ]_vars

\* C2: two consecutive committed adjustments are at least ADJUSTMENT_COOLDOWN
\* seconds apart; a tick that computes a setpoint different from the stored one
\* less than ADJUSTMENT_COOLDOWN seconds after the last adjustment issues no
\* write and keeps setpoint, timestamp and counter; before the first adjustment
\* a different setpoint is applied at once.
C2_Cooldown ==
    [][ IsIteration =>
          /\ (adjustment_count' # adjustment_count /\ last_adjustment_time # None)
                => last_adjustment_time'[1] - last_adjustment_time[1] >= ADJUSTMENT_COOLDOWN
          /\ ( /\ tick'.new # None
               /\ tick'.new[1] # << hp_weight, lp_weight >>
               /\ last_adjustment_time # None
               /\ now - last_adjustment_time[1] < ADJUSTMENT_COOLDOWN )
                => (tick'.writes = << >> /\ ControllerStateKept)
          /\ ( /\ tick'.new # None
               /\ tick'.new[1] # << hp_weight, lp_weight >>
               /\ last_adjustment_time = None )
                => adjustment_count' = adjustment_count + 1 ]_vars

\* a tick was suppressed by the cooldown after a committed adjustment
C2_Witness ==
    /\ tick.outcome = "cooldown"
    /\ adjustment_count = 1
    /\ tick.new[1] # << hp_weight, lp_weight >>
    /\ tick.writes = << >>

\* a second adjustment was committed (the first clause of C2 is exercised)
C2_SecondAdjustment == adjustment_count = 2

ExportedPair(m) == << m.drcio_hp_weight, m.drcio_lp_weight >>

\* C7: after a tick the exported (HP, LP) gauge pair is the pair exported before
\* the tick or the clamped control-law result for the latency sampled in the tick.
C7_ExportedPair ==
    [][ IsIteration =>
          \/ ExportedPair(metrics') = ExportedPair(metrics)
          \/ /\ tick'.latency # None
             /\ ExportedPair(metrics') = calculate_weights(tick'.latency[1]) ]_vars

\* an adjustment replaced an exported pair by a different one
C7_Witness ==
    /\ tick.outcome = "applied"
    /\ adjustment_count = 2
    /\ ExportedPair(metrics) = calculate_weights(tick.latency[1])
    /\ ExportedPair(metrics) # << 500, 500 >>

\* C8: a tick whose discovered HP set is empty issues no cgroup write, does not
\* query the latency source and keeps setpoint, timestamp and counter.
C8_EmptyHpSet ==
    [][ (IsIteration /\ tick'.hp_pods = << >>)
            => (tick'.writes = << >> /\ ~tick'.queried /\ ControllerStateKept) ]_vars

\* discovery succeeded and found LP pods but no HP pod, and the tick was skipped
C8_Witness ==
    /\ tick.outcome = "no_hp"
    /\ tick.api_ok
    /\ tick.hp_pods = << >>
    /\ tick.lp_pods # << >>

\* discovery failed in a cluster that has a Running HP pod, and the tick was skipped
C8_DiscoveryFailed ==
    /\ tick.outcome = "no_hp"
    /\ ~tick.api_ok
    /\ \E p \in Pods : cluster[p].phase = "Running" /\ cluster[p].label = "hp"

\* C9: a tick in which the latency source returns None (in particular on an
\* empty result) issues no cgroup write and keeps setpoint, timestamp and counter.
C9_NoLatency ==
    [][ ( /\ IsIteration
          /\ tick'.queried
          /\ \/ tick'.outcome # "raised" /\ tick'.latency = None
             \/ tick'.response = "no_data" )
            => (tick'.writes = << >> /\ ControllerStateKept) ]_vars

\* the latency source returned None after an adjustment, outside the cooldown
C9_Witness ==
    /\ tick.outcome = "no_latency"
    /\ tick.response = "no_data"
    /\ adjustment_count = 1
    /\ now - CONTROL_LOOP_INTERVAL - last_adjustment_time[1] >= ADJUSTMENT_COOLDOWN

\* --------------------------------------------------------------------------
\* Properties of the control law and of the configured bounds
\* --------------------------------------------------------------------------
TableRow(L, T) ==
    CASE L * 10 > T * 13 -> << 900, 100 >>
      [] L * 10 <= T * 13 /\ L * 10 > T * 11 -> << 800, 200 >>
      [] L * 10 <= T * 11 /\ L > T -> << 750, 250 >>
      [] L <= T /\ L * 10 > T * 8 -> << 700, 300 >>
      [] L * 10 <= T * 8 /\ L * 10 > T * 6 -> << 600, 400 >>
      [] L * 10 <= T * 6 -> << 500, 500 >>

OnBoundary(L, T) ==
    \/ L * 10 = T * 13
    \/ L * 10 = T * 11
    \/ L = T
    \/ L * 10 = T * 8
    \/ L * 10 = T * 6

LowerBand(L, T) ==
    CASE L * 10 = T * 13 -> << 800, 200 >>
      [] L * 10 = T * 11 -> << 750, 250 >>
      [] L = T -> << 700, 300 >>
      [] L * 10 = T * 8 -> << 600, 400 >>
      [] L * 10 = T * 6 -> << 500, 500 >>

\* C4: before clamping, calculate_weights selects the table row by strict
\* comparison, and a latency on a band boundary takes the lower band; where the
\* bounds leave the table's values alone, that row is what it returns.
C4_TableRow ==
    calc.called =>
        /\ calc.weights = TableRow(calc.latency, SLA_THRESHOLD_MS)
        /\ OnBoundary(calc.latency, SLA_THRESHOLD_MS)
              => calc.weights = LowerBand(calc.latency, SLA_THRESHOLD_MS)
        /\ (MIN_IO_WEIGHT <= 100 /\ MAX_IO_WEIGHT >= 900)
              => calc.result = TableRow(calc.latency, SLA_THRESHOLD_MS)

\* the control law was applied to a latency of exactly 1.3 T
C4_Witness ==
    /\ calc.called
    /\ calc.latency * 10 = SLA_THRESHOLD_MS * 13
    /\ calc.result = << 800, 200 >>

\* C5: both weights returned by calculate_weights lie in [MIN_W, MAX_W].
C5_WithinBounds ==
    calc.called =>
        \A i \in 1..2 : MIN_IO_WEIGHT <= calc.result[i] /\ calc.result[i] <= MAX_IO_WEIGHT

\* C6: the effective bounds satisfy 1 <= MIN_W <= MAX_W <= 1000 and every
\* weight written to an io.weight file lies in 1..1000.
C6_EnforcedBounds ==
    /\ 1 <= MIN_IO_WEIGHT
    /\ MIN_IO_WEIGHT <= MAX_IO_WEIGHT
    /\ MAX_IO_WEIGHT <= 1000
    /\ \A i \in 1..Len(tick.writes) :
          /\ tick.writes[i].line[1] = "default"
          /\ 1 <= tick.writes[i].line[2]
          /\ tick.writes[i].line[2] <= 1000

\* C11: every pod that pod discovery places in the HP or LP set, and every pod
\* whose cgroup the controller tries to write, is on the controller's own node
\* (weight controller).
C11_LocalNodeOnly ==
    /\ \A p \in Range(tick.hp_pods) \cup Range(tick.lp_pods) : cluster[p].node = node_name
    /\ \A i \in 1..Len(tick.writes) : cluster[tick.writes[i].pod].node = node_name

\* C15: an exception raised inside a tick is counted once as control_loop, and
\* the loop goes on: the stop flag is untouched, the process is alive and the
\* next tick is due CONTROL_LOOP_INTERVAL seconds later.
C15_TickExceptionCaught ==
    [][ (IsIteration /\ tick'.outcome = "raised") =>
          /\ Len(SelectSeq(tick'.errors, LAMBDA e : e = "control_loop")) = 1
          /\ running' = running
          /\ exit_code' = None
          /\ now' = now + CONTROL_LOOP_INTERVAL
          /\ ControllerStateKept ]_vars

\* a tick after the first raised (the latency response had a value list too
\* short), after an adjustment had been committed
C15_Witness ==
    /\ tick.outcome = "raised"
    /\ tick.response = "short_value"
    /\ iteration >= 2
    /\ adjustment_count = 1
    /\ running

\* C19: when MIN_W equals MAX_W the stored setpoint never changes and the
\* adjustment counter stays 0.
C19_EqualBoundsConstant ==
    MIN_IO_WEIGHT = MAX_IO_WEIGHT =>
        (hp_weight = 500 /\ lp_weight = 500 /\ adjustment_count = 0)

\* with both bounds at 500 that is so: the control law can only return the
\* setpoint the controller starts with
EqualBoundsAt500Constant ==
    (MIN_IO_WEIGHT = 500 /\ MAX_IO_WEIGHT = 500) =>
        (hp_weight = 500 /\ lp_weight = 500 /\ adjustment_count = 0)

\* C20: until the first committed adjustment the HP and LP weight gauges
\* report (500, 500).
C20_InitialSetpointReported ==
    adjustment_count = 0 => ExportedPair(metrics) = << 500, 500 >>

\* the kind an error of a write is counted under
ErrorKind(status) ==
    IF status = "denied" THEN "permission_denied" ELSE "io_weight_write"

\* C16: apply_io_weight tries every io.weight target it found, also after a
\* failed write; it returns True iff at least one write succeeded, and False
\* when there is no target or every write failed; every failed write is counted
\* once, under its kind.
C16_ApplyIoWeight ==
    call.called =>
        LET found == IF call.cg.dir THEN call.cg.targets ELSE << >>
            failed == SelectSeq(found, LAMBDA st : st # "ok")
        IN  /\ Len(call.writes) = Len(found)
            /\ \A i \in 1..Len(call.writes) :
                  /\ call.writes[i].target = i
                  /\ call.writes[i].line = io_weight_line(call.weight)
                  /\ call.writes[i].ok = (found[i] = "ok")
            /\ call.success = (\E i \in 1..Len(found) : found[i] = "ok")
            /\ (found = << >> \/ \A i \in 1..Len(found) : found[i] # "ok") => ~call.success
            /\ call.errors = [ i \in 1..Len(failed) |-> ErrorKind(failed[i]) ]

\* the first write was refused, the second succeeded, the third failed
C16_Witness ==
    /\ call.called
    /\ call.cg.targets = << "denied", "ok", "oserror" >>
    /\ call.success
    /\ Len(call.writes) = 3
    /\ call.errors = << "permission_denied", "io_weight_write" >>

\* C13: after a SIGTERM or SIGINT the process eventually exits with status 0.
C13_SignalledExit == (~running) ~> (exit_code = Some(0))

\* node agent: the flag was cleared and the loop thread has returned, and the
\* process is still alive (no step leads on from here)
SignalledLoopReturned == ~running /\ agent_pc = "returned" /\ exit_code = None

\* --------------------------------------------------------------------------
\* Threaded controller (drcio-eks-demo): fixed weight per priority class
\* --------------------------------------------------------------------------
\* the value of the drcio.io/priority label ("none": no such label)
PriorityLabels == { "high", "low", "none" }
EksClusters == [ Pods -> [ phase : Phases, label : PriorityLabels, node : Nodes ] ]

\* self.IO_WEIGHTS.get(priority, self.IO_WEIGHTS['medium'])
IO_WEIGHTS(priority) ==
    CASE priority = "high" -> 1000
      [] priority = "low" -> 10
      [] OTHER -> 100

\* labels.get(self.PRIORITY_LABEL, 'medium')
priority_of(label) == IF label = "none" THEN "medium" ELSE label

\* priority_counts[priority] after the loop over self.managed_pods.values()
priority_counts(table, priority) ==
    Cardinality({ i \in 1..Len(table) : table[i].priority = priority })

managed_uids == { managed_pods[i].uid : i \in 1..Len(managed_pods) }

\* One sweep of _pod_discovery_loop.  The field selector keeps the Running pods
\* of this node; a pod already tracked keeps its record.
_pod_discovery_loop ==
    /\ ~shutdown_requested
    /\ \E api_ok \in BOOLEAN :
        IF ~api_ok
        THEN UNCHANGED << managed_pods, ACTIVE_PODS >>
        ELSE LET current == SelectSeq(PodItems, LAMBDA p :
                                cluster[p].node = node_name /\ cluster[p].phase = "Running")
                 added == SelectSeq(current, LAMBDA p : p \notin managed_uids)
                 kept == SelectSeq(managed_pods, LAMBDA r : r.uid \in Range(current))
             IN  /\ managed_pods' = kept \o
                        [ i \in 1..Len(added) |->
                            [ uid |-> added[i],
                              priority |-> priority_of(cluster[added[i]].label) ] ]
                 /\ ACTIVE_PODS' =
                        [ priority \in Priorities |->
                            IF priority_counts(managed_pods', priority) > 0
                            THEN priority_counts(managed_pods', priority)
                            ELSE ACTIVE_PODS[priority] ]
    /\ UNCHANGED << envVars, now, running, exit_code, weightVars, pureVars, agentVars,
                    shutdown_requested, cgroup_v2_enabled, io_weight_file, control_pass,
                    items_iter >>

\* What one pass finds for a pod: whether get_pod_cgroup_path finds a directory
\* and whether io.weight can be opened for writing.
EksCgroupStates == [ found : BOOLEAN, writable : BOOLEAN ]

\* get_current_io_weight: None when io.weight is absent
get_current_io_weight(uid) == io_weight_file[uid]

\* set_io_weight: ok = written, attempted = open(io_weight_file, 'w') was called
set_io_weight(uid, weight, cg) ==
    IF ~cgroup_v2_enabled \/ io_weight_file[uid] = None
    THEN [ attempted |-> FALSE, ok |-> FALSE, weight |-> weight ]
    ELSE [ attempted |-> TRUE, ok |-> cg.writable,
           weight |-> Max(1, Min(10000, weight)) ]

\* the body of _apply_io_controls's loop for one tracked pod
apply_io_control(pod_info, cg) ==
    LET target_weight == IO_WEIGHTS(pod_info.priority)
        current_weight == get_current_io_weight(pod_info.uid)
    IN  IF ~cg.found
        THEN [ attempted |-> FALSE, ok |-> FALSE, weight |-> target_weight, gauge |-> FALSE ]
        ELSE IF current_weight # Some(target_weight)
        THEN set_io_weight(pod_info.uid, target_weight, cg) @@ [ gauge |-> TRUE ]
        ELSE [ attempted |-> FALSE, ok |-> FALSE, weight |-> target_weight, gauge |-> TRUE ]

\* One pass of _control_loop: _apply_io_controls, then _collect_metrics (which
\* only reads io.stat and sets gauges).
_control_loop ==
    /\ ~shutdown_requested
    /\ \E fs \in [ managed_uids -> EksCgroupStates ] :
        LET res == [ i \in 1..Len(managed_pods) |->
                        apply_io_control(managed_pods[i], fs[managed_pods[i].uid])
                            @@ [ pod |-> managed_pods[i].uid,
                                 priority |-> managed_pods[i].priority ] ]
            attempts == SelectSeq(res, LAMBDA r : r.attempted)
        IN  /\ control_pass' =
                [ writes |-> [ i \in 1..Len(attempts) |->
                                [ pod |-> attempts[i].pod,
                                  line |-> io_weight_line(attempts[i].weight),
                                  ok |-> attempts[i].ok ] ],
                  gauge |-> SelectSeq(res, LAMBDA r : r.gauge) ]
            /\ io_weight_file' =
                [ p \in DOMAIN io_weight_file |->
                    IF \E i \in 1..Len(res) : res[i].pod = p /\ res[i].attempted /\ res[i].ok
                    THEN Some((CHOOSE r \in Range(res) : r.pod = p).weight)
                    ELSE io_weight_file[p] ]
    /\ UNCHANGED << envVars, now, running, exit_code, weightVars, pureVars, agentVars,
                    shutdown_requested, cgroup_v2_enabled, managed_pods, ACTIVE_PODS, items_iter >>

eks_signal_handler ==
    /\ ~shutdown_requested
    /\ shutdown_requested' = TRUE
    /\ UNCHANGED << envVars, now, running, exit_code, weightVars, pureVars, agentVars,
                    cgroup_v2_enabled, managed_pods, io_weight_file, control_pass,
                    ACTIVE_PODS, items_iter >>

\* the io.weight a pod's cgroup starts with: absent, the kernel default, or a
\* value set by someone else
IoWeightFiles == { None, Some(100), Some(50) }

InitEks ==
    \E pods \in EksClusters, v2 \in BOOLEAN, files \in [ Pods -> IoWeightFiles ] :
        /\ environ = DefaultEnviron
        /\ cluster = pods
        /\ now = StartTime
        /\ running = TRUE
        /\ exit_code = None
        /\ call = NoCall
        /\ limit = NoLimit
        /\ hp_weight = 500
        /\ lp_weight = 500
        /\ adjustment_count = 0
        /\ last_adjustment_time = None
        /\ metrics = NoMetrics
        /\ iteration = 0
        /\ tick = NoTick
        /\ calc = NoCalc
        /\ AgentLoaded
        /\ EksConstructed(v2, files)

NextEks == _pod_discovery_loop \/ _control_loop \/ eks_signal_handler

SpecEks == InitEks /\ [][NextEks]_vars

\* --------------------------------------------------------------------------
\* Node agent (drc_io_agent): io.max caps on the containers of LP pods
\* --------------------------------------------------------------------------
POLL_INTERVAL == 5
READ_BANDWIDTH_LIMIT == "200M"
WRITE_BANDWIDTH_LIMIT == "50M"

\* what discover_block_device can return for SHARED_MOUNT_PATH; a device id
\* ("8:0") is spelt character by character
BlockDevices == { None, Some(<< "8", ":", "0" >>) }

\* list_pods_on_node: the pods of this node the loop keeps
list_pods_on_node ==
    SelectSeq(PodItems, LAMBDA p :
        cluster[p].node = node_name /\ cluster[p].phase \in { "Running", "Pending" })

\* group_pods_by_priority
group_pods_by_priority(pods) ==
    [ high_priority |-> SelectSeq(pods, LAMBDA p : cluster[p].label = "hp"),
      low_priority |-> SelectSeq(pods, LAMBDA p : cluster[p].label = "lp") ]

\* What one pass finds for the container of a pod: no container id reported,
\* no cgroup found for the id, the cgroup directory gone again, io.max written,
\* or the write refused.
AgentCgroupStates == { "no_id", "not_found", "gone", "ok", "denied" }

\* the line apply_io_limit puts into io.max (without the newline): a line of
\* text is the sequence of its tokens
io_limit_line(dev, rbps, wbps) == dev \o << " ", "rbps=" \o rbps, " ", "wbps=" \o wbps >>

\* apply_limits_to_low_priority_pods: the io.max writes attempted, in order
apply_limits_to_low_priority_pods(low_priority_pods, dev, fs) ==
    LET tried == SelectSeq(low_priority_pods, LAMBDA p : fs[p] \in { "ok", "denied" })
    IN  [ i \in 1..Len(tried) |->
            [ pod |-> tried[i],
              line |-> io_limit_line(dev, READ_BANDWIDTH_LIMIT, WRITE_BANDWIDTH_LIMIT),
              ok |-> (fs[tried[i]] = "ok") ] ]

\* controller_loop up to its while loop
controller_loop_start ==
    /\ agent_pc = "start"
    /\ \E config_ok \in BOOLEAN, dev \in BlockDevices :
        IF ~config_ok                       \* load_k8s_config raised: sys.exit(1)
        THEN /\ agent_pc' = "exited"
             /\ UNCHANGED << device, controller_state >>
        ELSE /\ agent_pc' = "loop"
             /\ device' = dev               \* stays unbound when discovery failed
             /\ controller_state' =
                    IF dev = None
                    THEN [ controller_state EXCEPT !.error_count = @ + 1,
                                                   !.last_error = Some("device") ]
                    ELSE controller_state
    /\ UNCHANGED << envVars, now, running, exit_code, weightVars, pureVars, eksVars,
                    agent_pass, observer >>

\* one pass of controller_loop's while loop, with the sleep
controller_loop ==
    /\ agent_pc = "loop"
    /\ running
    /\ now <= MaxTime
    /\ now' = now + POLL_INTERVAL
    /\ UNCHANGED << envVars, running, exit_code, weightVars, pureVars, eksVars,
                    agent_pc, device, observer >>
    /\ \E api_ok \in BOOLEAN :
        IF ~api_ok                          \* list_pods_on_node raised ApiException
        THEN /\ controller_state' = [ controller_state EXCEPT !.error_count = @ + 1,
                                                              !.last_error = Some("api") ]
             /\ agent_pass' = [ outcome |-> "error", writes |-> << >> ]
        ELSE LET g == group_pods_by_priority(list_pods_on_node)
                 listed == [ controller_state EXCEPT
                                !.high_priority_pods = g.high_priority,
                                !.low_priority_pods = g.low_priority ]
             IN  IF device = None           \* `if device:` on the unbound local
                 THEN /\ controller_state' = [ listed EXCEPT !.error_count = @ + 1,
                                                             !.last_error = Some("unbound") ]
                      /\ agent_pass' = [ outcome |-> "error", writes |-> << >> ]
                 ELSE \E fs \in [ Range(g.low_priority) -> AgentCgroupStates ] :
                        LET w == apply_limits_to_low_priority_pods(g.low_priority,
                                                                   device[1], fs)
                        IN  /\ controller_state' =
                                [ listed EXCEPT
                                    !.cgroups_with_limits =
                                        { w[i].pod : i \in { j \in 1..Len(w) : w[j].ok } },
                                    !.last_update = Some(now),
                                    !.error_count = 0,
                                    !.last_error = None ]
                            /\ agent_pass' = [ outcome |-> "updated", writes |-> w ]

\* `while running` is false: controller_loop returns and its thread ends; the
\* main thread stays in app.run()
controller_loop_return ==
    /\ agent_pc = "loop"
    /\ ~running
    /\ agent_pc' = "returned"
    /\ UNCHANGED << envVars, now, running, exit_code, weightVars, pureVars, eksVars,
                    device, controller_state, agent_pass, observer >>

\* The handler only clears the flag.  It runs in the main thread, which then
\* goes back to serving requests.
agent_signal_handler ==
    /\ running
    /\ running' = FALSE
    /\ UNCHANGED << envVars, now, exit_code, weightVars, pureVars, eksVars, agentVars >>

\* GET /status, served by a thread of the HTTP server while the process lives
status ==
    /\ exit_code = None
    /\ observer' = [ observer EXCEPT
                        !.response = Some(controller_state),
                        !.mid = IF agent_pc = "listed" THEN Some(controller_state) ELSE @ ]
    /\ UNCHANGED << envVars, now, running, exit_code, weightVars, pureVars, eksVars,
                    agent_pc, device, controller_state, agent_pass >>

InitAgent == \E pods \in Clusters : Constructed(DefaultEnviron, pods)

NextAgent ==
    \/ controller_loop_start
    \/ controller_loop
    \/ controller_loop_return
    \/ status
    \/ agent_signal_handler

SpecAgent == InitAgent /\ [][NextAgent]_vars

\* the loop thread and the server threads are scheduled; a signal may never come
FairSpecAgent == SpecAgent /\ WF_vars(controller_loop_start) /\ WF_vars(controller_loop)
                           /\ WF_vars(controller_loop_return) /\ WF_vars(status)

\* --------------------------------------------------------------------------
\* Node agent: the loop thread interleaved with the HTTP handlers
\* --------------------------------------------------------------------------
\* The first part of a pass: the pods are listed and the two pod lists of
\* controller_state are replaced.
controller_loop_list ==
    /\ agent_pc = "loop"
    /\ running
    /\ now <= MaxTime
    /\ observer' = [ observer EXCEPT !.pre = Some(controller_state), !.mid = None,
                                     !.torn = FALSE ]
    /\ UNCHANGED << envVars, running, exit_code, weightVars, pureVars, eksVars, device >>
    /\ \E api_ok \in BOOLEAN :
        IF ~api_ok                          \* list_pods_on_node raised ApiException
        THEN /\ controller_state' = [ controller_state EXCEPT !.error_count = @ + 1,
                                                              !.last_error = Some("api") ]
             /\ agent_pass' = [ outcome |-> "error", writes |-> << >> ]
             /\ now' = now + POLL_INTERVAL
             /\ agent_pc' = "loop"
        ELSE LET g == group_pods_by_priority(list_pods_on_node)
             IN  /\ controller_state' = [ controller_state EXCEPT
                                            !.high_priority_pods = g.high_priority,
                                            !.low_priority_pods = g.low_priority ]
                 /\ agent_pc' = "listed"
                 /\ UNCHANGED << now, agent_pass >>

\* The rest of the pass: the limits are applied, the remaining fields of
\* controller_state are set, and the thread sleeps.
controller_loop_apply ==
    /\ agent_pc = "listed"
    /\ agent_pc' = "loop"
    /\ now' = now + POLL_INTERVAL
    /\ UNCHANGED << envVars, running, exit_code, weightVars, pureVars, eksVars, device >>
    /\ IF device = None                     \* `if device:` on the unbound local
       THEN /\ controller_state' = [ controller_state EXCEPT !.error_count = @ + 1,
                                                             !.last_error = Some("unbound") ]
            /\ agent_pass' = [ outcome |-> "error", writes |-> << >> ]
       ELSE \E fs \in [ Range(controller_state.low_priority_pods) -> AgentCgroupStates ] :
              LET w == apply_limits_to_low_priority_pods(
                           controller_state.low_priority_pods, device[1], fs)
              IN  /\ controller_state' =
                      [ controller_state EXCEPT
                          !.cgroups_with_limits =
                              { w[i].pod : i \in { j \in 1..Len(w) : w[j].ok } },
                          !.last_update = Some(now),
                          !.error_count = 0,
                          !.last_error = None ]
                  /\ agent_pass' = [ outcome |-> "updated", writes |-> w ]
    \* a response read in the middle of the pass is torn when it is neither
    \* the state before the pass nor the state after it
    /\ observer' = [ observer EXCEPT !.torn =
                        /\ observer.mid # None
                        /\ observer.mid # observer.pre
                        /\ observer.mid # Some(controller_state') ]

NextAgentThreads ==
    \/ controller_loop_start
    \/ controller_loop_list
    \/ controller_loop_apply
    \/ controller_loop_return
    \/ status
    \/ agent_signal_handler

SpecAgentThreads == InitAgent /\ [][NextAgentThreads]_vars

\* --------------------------------------------------------------------------
\* Node agent: apply_io_limit on one io.max file
\* --------------------------------------------------------------------------
\* the devices with a line in the file, and those a limit is applied for
IoDevices == { << "8", ":", "1" >>, << "8", ":", "1", "6" >>, << "2", "5", "3", ":", "0" >> }
LimitedDevices == { << "8", ":", "1" >>, << "8", ":", "1", "6" >> }
ReadLimits == { "200M", "max" }

\* a line as the kernel prints it
kernel_line(dev) ==
    dev \o << " ", "rbps=max", " ", "wbps=1048576", " ", "riops=max", " ", "wiops=max" >>

\* The io.max files considered: absent, or up to MaxLines lines, each written
\* by apply_io_limit earlier or printed by the kernel.
IoMaxLines ==
    { io_limit_line(d, "200M", WRITE_BANDWIDTH_LIMIT) : d \in IoDevices }
        \cup { kernel_line(d) : d \in IoDevices }
IoMaxFiles ==
    { None } \cup { Some(c) : c \in UNION { [ 1..n -> IoMaxLines ] : n \in 0..MaxLines } }

\* str.startswith
startswith(line, prefix) ==
    Len(line) >= Len(prefix) /\ SubSeq(line, 1, Len(prefix)) = prefix

RECURSIVE strip(_)
\* str.strip: leading and trailing blanks removed
strip(line) ==
    IF line = << >> THEN line
    ELSE IF Head(line) = " " THEN strip(Tail(line))
    ELSE IF line[Len(line)] = " " THEN strip(SubSeq(line, 1, Len(line) - 1))
    ELSE line

\* `not line.startswith(f"{device} ")`
other_device_mut(line, dev) == ~startswith(line, dev)
other_device(line, dev) == ~startswith(line, dev \o << " " >>)

\* existing_limits as written back: the stripped non-empty lines read, less
\* those of the device, plus the new line
new_limits(file, dev, rbps, wbps) ==
    LET read == IF file = None THEN << >>
                ELSE SelectSeq([ i \in 1..Len(file[1]) |-> strip(file[1][i]) ],
                               LAMBDA l : l # << >>)
        kept == SelectSeq(read, LAMBDA l : other_device(l, dev))
    IN  kept \o << strip(io_limit_line(dev, rbps, wbps)) >>

\* the call returned
limit_returned(ok, file) ==
    [ limit EXCEPT !.pc = "idle", !.old = limit.file, !.file = file,
                   !.results = @ \o << [ ok |-> ok, file |-> file ] >> ]

\* apply_io_limit up to open(io_max_file, "w"), which empties the file
apply_io_limit_open ==
    /\ limit.pc = "idle"
    /\ Len(limit.results) < MaxCalls
    /\ \E outcome \in { "no_cgroup", "denied", "opened" } :
        limit' =
            CASE outcome = "no_cgroup" -> limit_returned(FALSE, limit.file)
              [] outcome = "denied" -> limit_returned(FALSE, limit.file)
              [] OTHER ->
                    [ limit EXCEPT
                        !.pc = "opened",
                        !.old = limit.file,
                        !.pending = new_limits(limit.file, limit.device, limit.rbps,
                                               limit.wbps),
                        !.file = Some(<< >>) ]
    /\ UNCHANGED << envVars, now, running, exit_code, weightVars, calc, call,
                    eksVars, agentVars >>

\* f.write(...) and the close of the file: the text arrives or the write fails
apply_io_limit_write ==
    /\ limit.pc = "opened"
    /\ \E ok \in BOOLEAN :
        limit' = [ limit EXCEPT
                     !.pc = "idle",
                     !.pending = << >>,
                     !.file = IF ok THEN Some(limit.pending) ELSE @,
                     !.results = @ \o << [ ok |-> ok,
                                           file |-> IF ok THEN Some(limit.pending)
                                                    ELSE limit.file ] >> ]
    /\ UNCHANGED << envVars, now, running, exit_code, weightVars, calc, call,
                    eksVars, agentVars >>

InitIoMax ==
    \E file \in IoMaxFiles, dev \in LimitedDevices, rbps \in ReadLimits :
        /\ Loaded(DefaultEnviron, NoPods)
        /\ limit = [ pc |-> "idle", device |-> dev, rbps |-> rbps,
                     wbps |-> WRITE_BANDWIDTH_LIMIT, file |-> file, old |-> file,
                     pending |-> << >>, results |-> << >> ]

NextIoMax == apply_io_limit_open \/ apply_io_limit_write

SpecIoMax == InitIoMax /\ [][NextIoMax]_vars

\* the device a line is for: the text before its first blank
device_of(line) ==
    SubSeq(line, 1, (CHOOSE i \in 1..Len(line) :
                        line[i] = " " /\ \A j \in 1..(i - 1) : line[j] # " ") - 1)

LinesOf(file) == IF file = None THEN << >> ELSE file[1]

\* C17: after a successful apply_io_limit the file holds exactly one line for
\* the device, the line '<device> rbps=<rbps> wbps=<wbps>'; the lines of the
\* other devices are those the file held at the call, in the same order; and
\* a second application of the same triple leaves the file as the first did.
C17_LimitIdempotent ==
    (limit.pc = "idle" /\ limit.results # << >>
        /\ limit.results[Len(limit.results)].ok) =>
        LET n == Len(limit.results)
            new == LinesOf(limit.file)
        IN  /\ limit.file # None
            /\ SelectSeq(new, LAMBDA l : device_of(l) = limit.device)
                  = << io_limit_line(limit.device, limit.rbps, limit.wbps) >>
            /\ SelectSeq(new, LAMBDA l : device_of(l) # limit.device)
                  = SelectSeq(LinesOf(limit.old), LAMBDA l : device_of(l) # limit.device)
            /\ (n >= 2 /\ limit.results[n - 1].ok)
                  => limit.results[n].file = limit.results[n - 1].file

\* the limit of 8:1 was applied twice to a file that held a line for 8:16 and
\* an older line for 8:1, and the file still holds the line for 8:16
C17_Witness ==
    /\ limit.pc = "idle"
    /\ Len(limit.results) = 2
    /\ limit.results[1].ok /\ limit.results[2].ok
    /\ limit.device = << "8", ":", "1" >>
    /\ limit.rbps = "max"
    /\ limit.file = Some(<< kernel_line(<< "8", ":", "1", "6" >>),
                            io_limit_line(<< "8", ":", "1" >>, "max", WRITE_BANDWIDTH_LIMIT) >>)

\* C18: at every point of a call of apply_io_limit, and after a call that
\* failed, io.max holds the complete contents it had at the call or the complete
\* new contents.
C18_AtomicRewrite ==
    limit.pc # "none" =>
        \/ limit.file = limit.old
        \/ limit.file = Some(new_limits(limit.old, limit.device, limit.rbps, limit.wbps))

\* a failed call left the file empty where it had held the line of another device
LinesLostAfterFailure ==
    /\ limit.pc = "idle"
    /\ Len(limit.results) = 1
    /\ ~limit.results[1].ok
    /\ limit.file = Some(<< >>)
    /\ \E i \in 1..Len(LinesOf(limit.old)) : device_of(LinesOf(limit.old)[i]) # limit.device

\* --------------------------------------------------------------------------
\* Properties about which pods are written
\* --------------------------------------------------------------------------
\* C3: no cgroup control file of a pod whose priority label is neither the HP
\* nor the LP value is ever written (threaded controller: the values are
\* "high" and "low").
C3_NoWritesToUnmanaged ==
    \A i \in 1..Len(control_pass.writes) :
        cluster[control_pass.writes[i].pod].label \in { "high", "low" }

\* The weight controller and the node agent do keep to the labelled pods: the
\* first writes only Running pods labelled hp or lp, the second only pods
\* labelled lp.
WeightWritesOnlyManaged ==
    \A i \in 1..Len(tick.writes) :
        /\ cluster[tick.writes[i].pod].label \in { "hp", "lp" }
        /\ cluster[tick.writes[i].pod].phase = "Running"
AgentWritesOnlyLp ==
    \A i \in 1..Len(agent_pass.writes) : cluster[agent_pass.writes[i].pod].label = "lp"

\* the node agent and the threaded controller list the pods of their own node
AgentListsLocalOnly ==
    \A p \in Range(controller_state.high_priority_pods)
              \cup Range(controller_state.low_priority_pods) : cluster[p].node = node_name
EksManagesLocalOnly == \A u \in managed_uids : cluster[u].node = node_name

\* C12: a telemetry read that interleaves with a pass of the loop returns the
\* state before the pass or the state after it, never a mix (node agent).
C12_NoTornRead == ~observer.torn

\* the same on a pass that went through: a read between the replacement of
\* the pod lists and that of cgroups_with_limits and last_update
TornOnUpdate == observer.torn /\ agent_pass.outcome = "updated"

\* C14: when the cluster configuration cannot be loaded the process exits with
\* status 1 (node agent: agent_pc is "exited" once controller_loop has called
\* sys.exit(1)).
C14_StartupFailureExits == agent_pc = "exited" => exit_code = Some(1)

\* the process that failed to start answers /status
ServingWithoutLoop ==
    agent_pc = "exited" /\ exit_code = None /\ observer.response # None

\* C10: a pod whose phase is not Running is never in the HP or LP set and never
\* has a cgroup control file written (node agent).
C10_OnlyRunningPods ==
    /\ \A p \in Range(controller_state.high_priority_pods)
               \cup Range(controller_state.low_priority_pods) :
          cluster[p].phase = "Running"
    /\ \A i \in 1..Len(agent_pass.writes) :
          cluster[agent_pass.writes[i].pod].phase = "Running"

\* --------------------------------------------------------------------------
\* The worked example of two ticks five seconds apart
\* --------------------------------------------------------------------------
\* the process runs with the default options
DefaultOptions == environ = DefaultEnviron

\* the first tick of the run sampled `first` ms and committed; this step is the
\* second tick and samples `second` ms
SecondTickAfter(first, second) ==
    /\ iteration = 1
    /\ tick.outcome = "applied"
    /\ tick.latency = Some(first)
    /\ tick'.latency = Some(second)

\* the statement as the example words it: the first tick commits (750, 250)
C21_TwoTicks ==
    [][ (IsIteration /\ DefaultOptions) =>
          /\ (iteration = 0 /\ tick'.latency = Some(600))
                => /\ tick'.outcome = "applied"
                   /\ << hp_weight', lp_weight' >> = << 750, 250 >>
                   /\ adjustment_count' = 1
          /\ SecondTickAfter(600, 700)
                => /\ tick'.outcome = "cooldown"
                   /\ tick'.writes = << >>
                   /\ << hp_weight', lp_weight' >> = << 750, 250 >>
                   /\ adjustment_count' = 1 ]_vars

\* C21 (amended): with the default options (T = 500, weights 100..1000, cooldown
\* 10 s) a first tick that samples 600 ms commits (800, 200); the tick five
\* seconds later that samples 700 ms is suppressed by the cooldown and writes
\* nothing; afterwards the adjustment counter is 1 and the stored setpoint is
\* (800, 200).
C21_TwoTicksAmended ==
    [][ (IsIteration /\ DefaultOptions) =>
          /\ (iteration = 0 /\ tick'.latency = Some(600))
                => /\ tick'.outcome = "applied"
                   /\ << hp_weight', lp_weight' >> = << 800, 200 >>
                   /\ adjustment_count' = 1
          /\ SecondTickAfter(600, 700)
                => /\ tick'.outcome = "cooldown"
                   /\ tick'.writes = << >>
                   /\ << hp_weight', lp_weight' >> = << 800, 200 >>
                   /\ adjustment_count' = 1
                   /\ metrics'.drcio_adjustments_total = 1 ]_vars

\* the second tick sampled 700 ms within the cooldown of the adjustment to
\* (800, 200) and was suppressed
C21_Witness ==
    /\ DefaultOptions
    /\ iteration = 2
    /\ tick.outcome = "cooldown"
    /\ tick.latency = Some(700)
    /\ tick.new = Some(<< 900, 100 >>)
    /\ << hp_weight, lp_weight >> = << 800, 200 >>
    /\ adjustment_count = 1
    /\ now - CONTROL_LOOP_INTERVAL - last_adjustment_time[1] = CONTROL_LOOP_INTERVAL

\* --------------------------------------------------------------------------
\* The control law is monotone
\* --------------------------------------------------------------------------
\* the latencies the one of the call is compared with: the next one (so that
\* the comparisons of all the calls chain over the whole range), one in each of
\* the next bands, and the highest
HigherLatencies(L) ==
    { L2 \in { L + 1, L + 50, L + 100, L + 200, MaxLatency } : L <= L2 /\ L2 <= MaxLatency }

\* C22: for a fixed threshold and fixed bounds, a higher latency never gets a
\* lower HP weight nor a higher LP weight from calculate_weights, and from
\* 0.6 * T upwards the HP weight is at least the LP weight.
C22_Monotone ==
    calc.called =>
        /\ \A L2 \in HigherLatencies(calc.latency) :
              /\ calculate_weights(L2)[1] >= calc.result[1]
              /\ calculate_weights(L2)[2] <= calc.result[2]
        /\ calc.latency * 10 >= SLA_THRESHOLD_MS * 6 => calc.result[1] >= calc.result[2]

\* a latency in the band above 0.6 * T got HP above LP, and a higher latency
\* gets a strictly higher HP weight and a strictly lower LP weight
C22_Witness ==
    /\ calc.called
    /\ DefaultOptions
    /\ calc.latency * 10 > SLA_THRESHOLD_MS * 6
    /\ calc.result = << 600, 400 >>
    /\ \E L2 \in HigherLatencies(calc.latency) :
          /\ calculate_weights(L2)[1] > calc.result[1]
          /\ calculate_weights(L2)[2] < calc.result[2]

\* --------------------------------------------------------------------------
\* Node agent: the exported error counter
\* --------------------------------------------------------------------------
\* the sample of drc_io_controller_errors_total that GET /metrics returns in
\* this state
drc_io_controller_errors_total == controller_state.error_count

\* C23: the exported error counter is cumulative: the value a scrape reads is
\* never below the value an earlier scrape read, also across a pass of the loop
\* that completed without error.
C23_ErrorsCumulative ==
    [][ drc_io_controller_errors_total' >= drc_io_controller_errors_total ]_vars

\* --------------------------------------------------------------------------
\* Weight controller: a cooldown as short as the loop interval
\* --------------------------------------------------------------------------
\* With ADJUSTMENT_COOLDOWN = CONTROL_LOOP_INTERVAL the tick that follows an
\* adjustment is already past the cooldown.
ShortCooldownEnviron ==
    [ DefaultEnviron EXCEPT !["ADJUSTMENT_COOLDOWN"] = Some(DEFAULT_CONTROL_LOOP_INTERVAL) ]

\* both pods Running on the node, both managed
ManagedClusters ==
    { c \in WeightClusters : /\ c["p1"].label # "none"
                             /\ c["p2"].label # "none"
                             /\ c["p2"].phase = "Running"
                             /\ c["p2"].node = node_name }

InitShortCooldown == \E pods \in ManagedClusters : Constructed(ShortCooldownEnviron, pods)

SpecShortCooldown == InitShortCooldown /\ [][Next]_vars

\* every io.weight write of the tick failed (and there was one)
EveryWriteFailed(t) == t.outcome = "applied" /\ t.writes # << >> /\ NoWriteSucceeded(t)

\* C24: when every cgroup write of a tick failed, the next tick that samples
\* the same band once the cooldown has passed attempts the writes again.
C24_FailedWritesRetried ==
    [][ ( /\ IsIteration
          /\ EveryWriteFailed(tick)
          /\ tick'.new = tick.new
          /\ ~in_cooldown(now) )
            => tick'.outcome = "applied" ]_vars

\* the tick after one whose writes all failed sampled the same band past the
\* cooldown and wrote nothing
C24_NotRetried ==
    /\ tick.outcome = "unchanged"
    /\ iteration = 2
    /\ adjustment_count = 1
    /\ tick.writes = << >>
    /\ now - CONTROL_LOOP_INTERVAL - last_adjustment_time[1] >= ADJUSTMENT_COOLDOWN

\* --------------------------------------------------------------------------
\* Weight controller: the io.weight files and an external writer
\* --------------------------------------------------------------------------
\* the pod-level io.weight files after the writes of a pass: a write that
\* succeeded leaves its weight on the "default" line
files_after(writes) ==
    [ p \in DOMAIN io_weight_file |->
        IF \E i \in 1..Len(writes) : writes[i].pod = p /\ writes[i].target = 1 /\ writes[i].ok
        THEN Some((CHOOSE w \in Range(writes) : w.pod = p /\ w.target = 1).line[2])
        ELSE io_weight_file[p] ]

\* a pass of the loop, the contents of the io.weight files being followed
run_files ==
    /\ while_running
    /\ io_weight_file' = files_after(tick'.writes)

\* the weights someone else may write: none of them is a setpoint of the
\* controller
ExternalWeights == { 50 }

\* someone else writes the io.weight file of a pod's cgroup
external_writer ==
    /\ exit_code = None
    /\ \E p \in Pods, w \in ExternalWeights :
        /\ io_weight_file[p] # Some(w)
        /\ io_weight_file' = [ io_weight_file EXCEPT ![p] = Some(w) ]
    /\ UNCHANGED << envVars, now, running, exit_code, weightVars, pureVars, agentVars,
                    shutdown_requested, cgroup_v2_enabled, managed_pods, control_pass,
                    ACTIVE_PODS, items_iter >>

\* an HP pod and an LP pod, both Running on the node
TamperClusters == { c \in ManagedClusters : c["p1"].label = "hp" /\ c["p2"].label = "lp" }

\* every cgroup starts with the kernel's default weight
InitFiles ==
    \E pods \in TamperClusters :
        /\ environ = DefaultEnviron
        /\ cluster = pods
        /\ now = StartTime
        /\ running = TRUE
        /\ exit_code = None
        /\ call = NoCall
        /\ limit = NoLimit
        /\ hp_weight = 500
        /\ lp_weight = 500
        /\ adjustment_count = 0
        /\ last_adjustment_time = None
        /\ metrics = NoMetrics
        /\ iteration = 0
        /\ tick = NoTick
        /\ calc = NoCalc
        /\ AgentLoaded
        /\ EksConstructed(TRUE, [ p \in Pods |-> Some(100) ])

NextFiles == run_files \/ external_writer \/ run_return \/ signal_handler

SpecFiles == InitFiles /\ [][NextFiles]_vars

\* the controller's current setpoint for the class of a pod
setpoint_of(p) == IF cluster[p].label = "hp" THEN hp_weight ELSE lp_weight

\* the io.weight of the pod holds what the external writer wrote, which is not
\* the setpoint of its class
Tampered(p) ==
    /\ io_weight_file[p] # None
    /\ io_weight_file[p][1] \in ExternalWeights
    /\ io_weight_file[p] # Some(setpoint_of(p))

\* the statement without the amendment: a tick that samples the band of the
\* stored setpoint rewrites a file that holds something else
C25_TamperingUndone ==
    [][ \A p \in Pods :
          ( /\ IsIteration
            /\ Tampered(p)
            /\ tick'.new = Some(<< hp_weight, lp_weight >>) )
              => io_weight_file'[p] = Some(setpoint_of(p)) ]_vars

\* C25 (amended): when the io.weight of a Running HP or LP pod holds something
\* else than the setpoint of its class, a tick that applies a setpoint and whose
\* write to the file succeeds leaves the new setpoint of the class in it; a tick
\* that samples the band of the stored setpoint writes nothing and leaves the
\* file as it is.
C25_TamperingUndoneOnApply ==
    [][ \A p \in Pods :
          (IsIteration /\ Tampered(p)) =>
            /\ ( /\ tick'.outcome = "applied"
                 /\ \E i \in 1..Len(tick'.writes) :
                      /\ tick'.writes[i].pod = p
                      /\ tick'.writes[i].target = 1
                      /\ tick'.writes[i].ok )
                  => /\ io_weight_file'[p] = Some(IF cluster[p].label = "hp"
                                                  THEN hp_weight' ELSE lp_weight')
                     /\ io_weight_file'[p] = Some(tick'.new[1][IF cluster[p].label = "hp"
                                                               THEN 1 ELSE 2])
            /\ tick'.new = Some(<< hp_weight, lp_weight >>)
                  => (tick'.writes = << >> /\ io_weight_file' = io_weight_file) ]_vars

\* an external writer changed the file of an HP pod after an adjustment, and
\* the tick after that sampled the band of the stored setpoint
C25_Witness ==
    /\ io_weight_file["p1"] = Some(50)
    /\ adjustment_count = 1
    /\ tick.outcome = "unchanged"
    /\ tick.new = Some(<< hp_weight, lp_weight >>)
    /\ Tampered("p1")

\* an external writer changed the file of an HP pod and a later adjustment put
\* the new setpoint in it
C25_Rewritten ==
    /\ adjustment_count = 2
    /\ tick.outcome = "applied"
    /\ io_weight_file["p1"] = Some(hp_weight)
    /\ io_weight_file["p2"] = Some(50)

\* --------------------------------------------------------------------------
\* Weight controller: a tick that computes the stored setpoint
\* --------------------------------------------------------------------------
\* C26: a tick whose computed setpoint equals the stored one issues no cgroup
\* write and leaves the adjustment counter and the last-adjustment timestamp
\* as they were, within the cooldown and after it.
C26_UnchangedSetpointSkipped ==
    [][ (IsIteration /\ tick'.new = Some(<< hp_weight, lp_weight >>))
            => /\ tick'.writes = << >>
               /\ adjustment_count' = adjustment_count
               /\ last_adjustment_time' = last_adjustment_time
               /\ metrics'.drcio_adjustments_total = metrics.drcio_adjustments_total
               /\ metrics'.drcio_last_adjustment_ts = metrics.drcio_last_adjustment_ts ]_vars

\* after one adjustment, a tick past the cooldown computed the stored setpoint
\* and was skipped: still one adjustment
C26_Witness ==
    /\ tick.outcome = "unchanged"
    /\ tick.new = Some(<< hp_weight, lp_weight >>)
    /\ adjustment_count = 1
    /\ metrics.drcio_adjustments_total = 1
    /\ now - CONTROL_LOOP_INTERVAL - last_adjustment_time[1] >= ADJUSTMENT_COOLDOWN

\* the same within the cooldown
C26_WithinCooldown ==
    /\ tick.outcome = "unchanged"
    /\ adjustment_count = 1
    /\ now - CONTROL_LOOP_INTERVAL - last_adjustment_time[1] < ADJUSTMENT_COOLDOWN

\* --------------------------------------------------------------------------
\* Node agent: the block device was not resolved at startup
\* --------------------------------------------------------------------------
\* the step is one pass of controller_loop's while loop
IsAgentPass == now' # now

\* C27: after a failed resolution of the block device at startup a pass of the
\* loop attempts the resolution again instead of failing: a pass that starts
\* with the device unresolved fails only when listing the pods failed.
C27_ResolutionRetried ==
    [][ (IsAgentPass /\ device = None /\ controller_state'.last_error # Some("api"))
            => agent_pass'.outcome # "error" ]_vars

\* the resolution failed at startup and every pass since has failed on the
\* unresolved device
C27_FailingEveryPass ==
    /\ agent_pc = "loop"
    /\ device = None
    /\ agent_pass.outcome = "error"
    /\ controller_state.last_error = Some("unbound")
    /\ controller_state.last_update = None
    /\ controller_state.error_count = 1 + (now - StartTime) \div POLL_INTERVAL
    /\ now > StartTime + POLL_INTERVAL

\* --------------------------------------------------------------------------
\* Weight controller: failures of the latency source
\* --------------------------------------------------------------------------
\* the tick asked the latency source and it failed
LatencySourceFailed(t) == t.queried /\ t.response \in PromFailures

\* C28: whatever way the latency source fails (transport error or non-2xx
\* status, a body that is not JSON, a status other than success, an empty
\* result, a value that cannot be parsed or indexed), get_hp_latency returns
\* None without raising and an error labelled prometheus_query or
\* prometheus_parse is counted.
C28_LatencyFailureCounted ==
    LatencySourceFailed(tick) =>
        /\ tick.outcome = "no_latency"
        /\ tick.latency = None
        /\ \E i \in 1..Len(tick.errors) :
              tick.errors[i] \in { "prometheus_query", "prometheus_parse" }

\* the latency source answered with a status other than success and the tick
\* counted no error
C28_FailureNotCounted ==
    /\ tick.response = "not_success"
    /\ tick.outcome = "no_latency"
    /\ tick.errors = << >>

\* the body was not JSON and get_hp_latency raised
C28_Raised ==
    /\ tick.response = "invalid_json"
    /\ tick.outcome = "raised"
    /\ tick.errors = << "control_loop" >>

\* --------------------------------------------------------------------------
\* Weight controller: the cluster API call fails
\* --------------------------------------------------------------------------
\* C29: in a tick whose cluster API call fails, discover_pods returns two empty
\* sets and counts one error labelled pod_discovery and no other, the tick
\* writes nothing and keeps setpoint, timestamp and counter, and the loop goes
\* on to the next tick, which lists the pods again.
C29_DiscoveryFailure ==
    [][ IsIteration =>
          /\ ~tick'.api_ok
                => /\ tick'.hp_pods = << >> /\ tick'.lp_pods = << >>
                   /\ tick'.errors = << "pod_discovery" >>
                   /\ tick'.outcome = "no_hp"
                   /\ ~tick'.queried
                   /\ tick'.writes = << >>
                   /\ ControllerStateKept
                   /\ ExportedPair(metrics') = ExportedPair(metrics)
                   /\ running' = running
                   /\ now' = now + CONTROL_LOOP_INTERVAL
          /\ (~tick.api_ok /\ tick.outcome = "no_hp" /\ tick'.api_ok)
                => /\ tick'.hp_pods = discover_pods(TRUE).hp_pods
                   /\ tick'.lp_pods = discover_pods(TRUE).lp_pods
                   /\ "pod_discovery" \notin Range(tick'.errors) ]_vars

\* the listing failed in the tick after an adjustment, and the setpoint of
\* the adjustment is still the stored one
C29_Witness ==
    /\ ~tick.api_ok
    /\ tick.errors = << "pod_discovery" >>
    /\ iteration = 2
    /\ adjustment_count = 1
    /\ << hp_weight, lp_weight >> # << 500, 500 >>

\* --------------------------------------------------------------------------
\* Weight controller: a pod without a cgroup directory
\* --------------------------------------------------------------------------
\* the tick applied a setpoint while get_cgroup_path found no directory for
\* HP pod p
HpPodWithoutCgroup(t, p) ==
    /\ t.outcome = "applied"
    /\ p \in Range(t.hp_pods)
    /\ p \in Range(t.missing)

\* the tick attempted a write for every discovered pod that has a cgroup directory
OthersAttempted(t) ==
    \A q \in (Range(t.hp_pods) \cup Range(t.lp_pods)) \ Range(t.missing) :
        \E i \in 1..Len(t.writes) : t.writes[i].pod = q

\* C30: in a tick that applies a new setpoint while a discovered HP pod has no
\* cgroup directory, an error of kind cgroup_not_found is counted for each such
\* pod, a write is attempted for every other HP and LP pod, and the setpoint is
\* committed if at least one write succeeded.
C30_MissingCgroupRecorded ==
    \A p \in Pods :
        HpPodWithoutCgroup(tick, p) =>
            /\ Len(SelectSeq(tick.errors, LAMBDA e : e = "cgroup_not_found"))
                   = Len(tick.missing)
            /\ OthersAttempted(tick)
            /\ (~NoWriteSucceeded(tick))
                   => tick.new = Some(<< hp_weight, lp_weight >>)

\* HP pod p1 had no cgroup directory, the write for the other pod succeeded,
\* the setpoint was committed, and the tick counted no error at all
C30_NothingRecorded ==
    /\ HpPodWithoutCgroup(tick, "p1")
    /\ OthersAttempted(tick)
    /\ \E i \in 1..Len(tick.writes) : tick.writes[i].pod = "p2" /\ tick.writes[i].ok
    /\ tick.new = Some(<< hp_weight, lp_weight >>)
    /\ tick.errors = << >>

\* --------------------------------------------------------------------------
\* Weight controller: the order of the writes and of the commit
\* --------------------------------------------------------------------------
\* write i of the tick is for a pod of the HP list (of the LP list)
IsHpWrite(t, i) == t.writes[i].pod \in Range(t.hp_pods)
IsLpWrite(t, i) == t.writes[i].pod \in Range(t.lp_pods)

\* C31: within a tick every io.weight write for an HP pod comes before the
\* first write for an LP pod, and the stored setpoint and the last-adjustment
\* timestamp change in the same tick, so that the next tick reads both as the
\* tick that applied left them.
C31_HpBeforeLp ==
    [][ IsIteration =>
          /\ \A i, j \in 1..Len(tick'.writes) :
                (IsLpWrite(tick', i) /\ IsHpWrite(tick', j)) => j < i
          /\ (<< hp_weight', lp_weight' >> # << hp_weight, lp_weight >>)
                => /\ tick'.outcome = "applied"
                   /\ last_adjustment_time' # None
                   /\ last_adjustment_time'[1] >= now
                   /\ last_adjustment_time'[1] < now'
          /\ (last_adjustment_time' # last_adjustment_time)
                => tick'.new = Some(<< hp_weight', lp_weight' >>) ]_vars

\* a tick wrote for an HP pod and then for an LP pod, and committed
C31_Witness ==
    /\ tick.outcome = "applied"
    /\ \E i, j \in 1..Len(tick.writes) :
          IsHpWrite(tick, i) /\ IsLpWrite(tick, j) /\ i < j
    /\ tick.new = Some(<< hp_weight, lp_weight >>)
    /\ last_adjustment_time # None

\* --------------------------------------------------------------------------
\* Weight controller: samples around a band boundary
\* --------------------------------------------------------------------------
\* the last latency the controller sampled (the gauge is set on every sample)
LastSample == metrics.drcio_hp_latency_ms

\* the step is a tick that samples `next` while the sample before it was
\* `last`, after a first adjustment to the setpoint of the band of `last`
Oscillates(last, next) ==
    /\ IsIteration
    /\ DefaultOptions
    /\ adjustment_count = 1
    /\ << hp_weight, lp_weight >> = calculate_weights(last)
    /\ LastSample = last
    /\ tick'.latency = Some(next)

\* C32: when the samples go back and forth between a value just above the
\* boundary T of two bands (550 ms) and a value just below or on it (500 ms),
\* no adjustment is committed after the first one.
C32_NoFlipAtBoundary ==
    [][ (Oscillates(550, 500) \/ Oscillates(500, 550))
            => /\ adjustment_count' = adjustment_count
               /\ << hp_weight', lp_weight' >> = << hp_weight, lp_weight >> ]_vars

\* the sample went from 550 ms to 500 ms and the setpoint went from (750, 250)
\* to (700, 300): a second adjustment
C32_Flipped ==
    /\ DefaultOptions
    /\ adjustment_count = 2
    /\ tick.outcome = "applied"
    /\ tick.latency = Some(500)
    /\ << hp_weight, lp_weight >> = << 700, 300 >>
    /\ iteration = 3

\* --------------------------------------------------------------------------
\* Weight controller: a tick in two steps, and a signal between them
\* --------------------------------------------------------------------------
\* control_loop_iteration has got past the cooldown test and is about to call
\* _apply_new_weights
apply_later(t, m, d, new) ==
    /\ tick' = [ t EXCEPT !.outcome = "pending" ]
    /\ metrics' = m
    /\ UNCHANGED << now, hp_weight, lp_weight, adjustment_count, last_adjustment_time >>

\* the tick is between its latency query and its cgroup writes
InTick == tick.outcome = "pending"

\* the first steps of a pass: discovery, latency query, control law, the tests
run_steps ==
    /\ ~InTick
    /\ loop_pass(apply_later)
    /\ UNCHANGED io_weight_file

\* the rest of the pass: the writes, the commit and the sleep
run_apply ==
    /\ InTick
    /\ exit_code = None
    /\ \E fs \in CgroupsOf(Range(tick.hp_pods) \cup Range(tick.lp_pods)),
          delay \in 0..MaxApplyDelay :
            _apply_new_weights(tick, metrics, tick.hp_pods, tick.lp_pods,
                               tick.new[1][1], tick.new[1][2], fs, now + delay)
    /\ UNCHANGED << envVars, running, exit_code, iteration, pureVars, eksVars, agentVars >>

\* `while running` is evaluated between two passes only
run_return_steps == ~InTick /\ run_return

InitSteps == \E pods \in ManagedClusters : Constructed(DefaultEnviron, pods)

NextSteps == run_steps \/ run_apply \/ run_return_steps \/ signal_handler

SpecSteps == InitSteps /\ [][NextSteps]_vars

\* C33: once a termination signal has set the stop flag, the tick in progress
\* starts no further step: no cgroup write is issued after the flag is set.
C33_NoWriteAfterSignal ==
    [][ ~running => tick'.writes = tick.writes ]_vars

\* the signal came between the latency query and the apply step, and the
\* apply step wrote and committed all the same
C33_WroteAfterSignal ==
    /\ ~running
    /\ exit_code = None
    /\ tick.outcome = "applied"
    /\ tick.writes # << >>
    /\ adjustment_count = 1
    /\ iteration = 1

\* --------------------------------------------------------------------------
\* Weight controller: a tick that takes longer than the loop interval
\* --------------------------------------------------------------------------
\* the longest the writes of one tick take, in seconds
MaxSlowDelay == 3

\* the call of _apply_new_weights when the writes can take long
apply_slowly(t, m, d, new) ==
    \E fs \in CgroupsOf(Range(d.hp_pods) \cup Range(d.lp_pods)),
       delay \in 0..MaxSlowDelay :
        _apply_new_weights(t, m, d.hp_pods, d.lp_pods, new[1], new[2], fs, now + delay)

\* a pass of the loop whose writes can take long
run_slowly == loop_pass(apply_slowly) /\ UNCHANGED io_weight_file

\* a loop interval shorter than the longest tick
ShortIntervalEnviron == [ DefaultEnviron EXCEPT !["CONTROL_LOOP_INTERVAL"] = Some(2) ]

\* one HP pod on the node
SlowClusters ==
    { c \in WeightClusters : /\ c["p1"].label = "hp"
                             /\ c["p2"].label = "none"
                             /\ c["p2"].phase = "Running"
                             /\ c["p2"].node = node_name }

InitSlow == \E pods \in SlowClusters : Constructed(ShortIntervalEnviron, pods)

NextSlow == run_slowly \/ run_return \/ signal_handler

SpecSlow == InitSlow /\ [][NextSlow]_vars

\* when the tick of this step ended (the commit is the last thing a tick that
\* applies does; the other ticks take no time)
TickEnd == IF tick'.outcome = "applied" THEN last_adjustment_time'[1] ELSE now

\* C34: ticks do not overlap, and a tick that took longer than
\* CONTROL_LOOP_INTERVAL is followed by the next tick at once, without a sleep.
C34_NoSleepAfterLongTick ==
    [][ IsIteration =>
          /\ now' >= TickEnd
          /\ TickEnd - now > CONTROL_LOOP_INTERVAL => now' = TickEnd ]_vars

\* a tick took 3 s with a loop interval of 2 s, and the next tick is due 2 s
\* after its end
C34_SleptAfterLongTick ==
    /\ tick.outcome = "applied"
    /\ iteration = 1
    /\ last_adjustment_time[1] - StartTime > CONTROL_LOOP_INTERVAL
    /\ now = last_adjustment_time[1] + CONTROL_LOOP_INTERVAL

\* --------------------------------------------------------------------------
\* Threaded controller: the cluster changes while the controller runs
\* --------------------------------------------------------------------------
\* someone changes or removes the priority label of a pod
pod_relabelled ==
    /\ \E p \in Pods, l \in PriorityLabels :
        /\ cluster[p].label # l
        /\ cluster' = [ cluster EXCEPT ![p].label = l ]
    /\ UNCHANGED << environ, now, running, exit_code, weightVars, pureVars, eksVars,
                    agentVars >>

\* a Pending pod becomes Running
pod_started ==
    /\ \E p \in Pods :
        /\ cluster[p].phase = "Pending"
        /\ cluster' = [ cluster EXCEPT ![p].phase = "Running" ]
    /\ UNCHANGED << environ, now, running, exit_code, weightVars, pureVars, eksVars,
                    agentVars >>

\* two labelled pods of the node, the second one not started yet
RelabelClusters ==
    { c \in EksClusters : /\ \A p \in Pods : c[p].node = node_name /\ c[p].label # "none"
                          /\ c["p1"].phase = "Running"
                          /\ c["p2"].phase = "Pending" }

InitRelabel ==
    \E pods \in RelabelClusters :
        /\ environ = DefaultEnviron
        /\ cluster = pods
        /\ now = StartTime
        /\ running = TRUE
        /\ exit_code = None
        /\ call = NoCall
        /\ limit = NoLimit
        /\ hp_weight = 500
        /\ lp_weight = 500
        /\ adjustment_count = 0
        /\ last_adjustment_time = None
        /\ metrics = NoMetrics
        /\ iteration = 0
        /\ tick = NoTick
        /\ calc = NoCalc
        /\ AgentLoaded
        /\ EksConstructed(TRUE, [ p \in Pods |-> Some(100) ])

NextRelabel ==
    \/ _pod_discovery_loop
    \/ _control_loop
    \/ eks_signal_handler
    \/ pod_relabelled
    \/ pod_started

SpecRelabel == InitRelabel /\ [][NextRelabel]_vars

\* the record of every tracked pod holds the priority of the pod's label
RecordsCurrent(table) ==
    \A i \in 1..Len(table) :
        table[i].priority = priority_of(cluster[table[i].uid].label)

\* C35: the records of the tracked pods are replaced on every discovery sweep:
\* after a sweep (one that changed the table; the others leave no trace) the
\* priority held for every tracked pod is the one of the label the sweep saw,
\* which is the priority the control loop takes the pod's weight from.
C35_RecordsReplaced ==
    [][ (managed_pods' # managed_pods) => RecordsCurrent(managed_pods') ]_vars

\* a sweep added the second pod and kept the first pod's record with the
\* priority of a label the pod no longer has
C35_StaleRecord ==
    /\ Len(managed_pods) = 2
    /\ managed_pods[1].uid = "p1"
    /\ managed_pods[1].priority = "high"
    /\ cluster["p1"].label = "low"
    /\ managed_pods[2].priority = priority_of(cluster["p2"].label)

\* --------------------------------------------------------------------------
\* Which thread mutates what (threaded controller)
\* --------------------------------------------------------------------------
\* a step of the discovery thread that inserted or removed a pod record
DiscoverySweep == managed_pods' # managed_pods

\* C36: neither the telemetry thread nor the discovery thread writes a cgroup
\* file or mutates the state that the telemetry handlers read: a sweep of the
\* discovery thread leaves every io.weight file, the weight gauges and the
\* per-priority pod counts as they were.
C36_OnlyControlLoopMutates ==
    [][ DiscoverySweep => /\ io_weight_file' = io_weight_file
                          /\ control_pass' = control_pass
                          /\ ACTIVE_PODS' = ACTIVE_PODS ]_vars

\* the part of C36 about the cgroup files alone
C36_DiscoveryWritesNoCgroup ==
    [][ DiscoverySweep => /\ io_weight_file' = io_weight_file
                          /\ control_pass' = control_pass ]_vars

\* the discovery thread has set the drcio_active_pods gauge
C36_GaugeSetByDiscovery ==
    /\ control_pass = NoControlPass
    /\ \E priority \in Priorities : ACTIVE_PODS[priority] > 0

\* --------------------------------------------------------------------------
\* The control loop's passes over the pod table, one step of the dict
\* iterator at a time, with the discovery thread running in between
\* --------------------------------------------------------------------------
\* iter(self.managed_pods.items()): the iterator remembers the size of the dict
items(loop) ==
    [ loop |-> loop, di_used |-> Len(managed_pods), di_pos |-> 1, raised |-> FALSE ]

\* next() raises RuntimeError("dictionary changed size during iteration")
changed_size == Len(managed_pods) # items_iter.di_used

\* the except clause of _control_loop: the rest of the pass is abandoned
pass_failed == items_iter' = [ NoIterator EXCEPT !.raised = TRUE ]

\* _control_loop enters its try block and _apply_io_controls starts its for loop
_apply_io_controls_begin ==
    /\ ~shutdown_requested
    /\ items_iter.loop = "none"
    /\ items_iter' = items("_apply_io_controls")
    /\ control_pass' = NoControlPass
    /\ UNCHANGED << envVars, now, running, exit_code, weightVars, pureVars, agentVars,
                    shutdown_requested, cgroup_v2_enabled, managed_pods, io_weight_file,
                    ACTIVE_PODS >>

\* one turn of the for loop of _apply_io_controls
_apply_io_controls_next ==
    /\ items_iter.loop = "_apply_io_controls"
    /\ IF changed_size
       THEN pass_failed /\ UNCHANGED << io_weight_file, control_pass >>
       ELSE IF items_iter.di_pos > Len(managed_pods)
       THEN /\ items_iter' = items("_collect_metrics")
            /\ UNCHANGED << io_weight_file, control_pass >>
       ELSE \E cg \in EksCgroupStates :
            LET pod_info == managed_pods[items_iter.di_pos]
                r == apply_io_control(pod_info, cg)
                    @@ [ pod |-> pod_info.uid, priority |-> pod_info.priority ]
            IN  /\ control_pass' =
                    [ writes |-> IF r.attempted
                                 THEN Append(control_pass.writes,
                                             [ pod |-> r.pod,
                                               line |-> io_weight_line(r.weight),
                                               ok |-> r.ok ])
                                 ELSE control_pass.writes,
                      gauge |-> IF r.gauge THEN Append(control_pass.gauge, r)
                                           ELSE control_pass.gauge ]
                /\ io_weight_file' =
                    IF r.attempted /\ r.ok
                    THEN [ io_weight_file EXCEPT ![r.pod] = Some(r.weight) ]
                    ELSE io_weight_file
                /\ items_iter' = [ items_iter EXCEPT !.di_pos = @ + 1 ]
    /\ UNCHANGED << envVars, now, running, exit_code, weightVars, pureVars, agentVars,
                    shutdown_requested, cgroup_v2_enabled, managed_pods, ACTIVE_PODS >>

\* one turn of the for loop of _collect_metrics, which reads io.stat and sets
\* the byte gauges of the pod
_collect_metrics_next ==
    /\ items_iter.loop = "_collect_metrics"
    /\ IF changed_size
       THEN pass_failed
       ELSE IF items_iter.di_pos > Len(managed_pods)
       THEN items_iter' = NoIterator
       ELSE items_iter' = [ items_iter EXCEPT !.di_pos = @ + 1 ]
    /\ UNCHANGED << envVars, now, running, exit_code, weightVars, pureVars, agentVars,
                    shutdown_requested, cgroup_v2_enabled, managed_pods, io_weight_file,
                    control_pass, ACTIVE_PODS >>

InitInterleave == InitRelabel

NextInterleave ==
    \/ _pod_discovery_loop
    \/ _apply_io_controls_begin
    \/ _apply_io_controls_next
    \/ _collect_metrics_next
    \/ eks_signal_handler
    \/ pod_started

SpecInterleave == InitInterleave /\ [][NextInterleave]_vars

\* C37: the control loop's iteration over the managed-pod table never
\* interleaves with an insertion or removal made by the discovery thread, so
\* no pass fails because the table changed size during the iteration.
C37_NoPassFails == ~items_iter.raised

\* the same, as a statement about the steps: the table does not change while
\* a loop over it is under way
C37_TableStableDuringPass ==
    [][ items_iter.loop # "none" => managed_pods' = managed_pods ]_vars

\* a pass was abandoned after it had written the weight of the first pod only
C37_PassCutShort ==
    /\ items_iter.raised
    /\ Len(managed_pods) = 2
    /\ Len(control_pass.writes) = 1
    /\ io_weight_file[managed_pods[2].uid] # Some(IO_WEIGHTS(managed_pods[2].priority))

\* --------------------------------------------------------------------------
\* Weight controller: a pod that starts after an adjustment
\* --------------------------------------------------------------------------
\* an HP pod Running, and a second pod of either class not started yet
StartClusters ==
    { c \in WeightClusters : /\ c["p1"].label = "hp"
                             /\ c["p2"].label # "none"
                             /\ c["p2"].phase = "Pending"
                             /\ c["p2"].node = node_name }

\* a Pending pod becomes Running once an adjustment has been committed
pod_started_late == adjustment_count >= 1 /\ pod_started

\* every cgroup starts with the kernel's default weight
InitStart ==
    \E pods \in StartClusters :
        /\ environ = DefaultEnviron
        /\ cluster = pods
        /\ now = StartTime
        /\ running = TRUE
        /\ exit_code = None
        /\ call = NoCall
        /\ limit = NoLimit
        /\ hp_weight = 500
        /\ lp_weight = 500
        /\ adjustment_count = 0
        /\ last_adjustment_time = None
        /\ metrics = NoMetrics
        /\ iteration = 0
        /\ tick = NoTick
        /\ calc = NoCalc
        /\ AgentLoaded
        /\ EksConstructed(TRUE, [ p \in Pods |-> Some(100) ])

NextStart == run_files \/ pod_started_late \/ run_return \/ signal_handler

SpecStart == InitStart /\ [][NextStart]_vars

\* the pod became Running after an adjustment had been committed (the second
\* pod of SpecStart, once it runs)
StartedLate(p) == p = "p2" /\ cluster[p].phase = "Running"

\* the statement without the amendment: a pod that became Running after the
\* last committed adjustment is written with the setpoint of its class by a
\* tick that samples the band of the stored setpoint
C38_NewPodWritten ==
    [][ \A p \in Pods :
          ( /\ IsIteration
            /\ StartedLate(p)
            /\ adjustment_count = 1
            /\ tick'.new = Some(<< hp_weight, lp_weight >>) )
              => io_weight_file'[p] = Some(setpoint_of(p)) ]_vars

\* C38 (amended): an HP or LP pod that becomes Running after a committed
\* adjustment has its io.weight written with the new setpoint of its class by
\* a tick that commits a later adjustment and whose write to the file
\* succeeds; a tick that samples the band of the stored setpoint writes
\* nothing and leaves the file of the pod as it is.
C38_NewPodWrittenOnApply ==
    [][ \A p \in Pods :
          (IsIteration /\ StartedLate(p)) =>
            /\ ( /\ tick'.outcome = "applied"
                 /\ \E i \in 1..Len(tick'.writes) :
                      /\ tick'.writes[i].pod = p
                      /\ tick'.writes[i].target = 1
                      /\ tick'.writes[i].ok )
                  => io_weight_file'[p] = Some(IF cluster[p].label = "hp"
                                               THEN hp_weight' ELSE lp_weight')
            /\ tick'.new = Some(<< hp_weight, lp_weight >>)
                  => (tick'.writes = << >> /\ io_weight_file'[p] = io_weight_file[p]) ]_vars

\* the second pod started after the only adjustment, a tick that sampled the
\* band of the stored setpoint has discovered it, and its io.weight still
\* holds the kernel's default instead of the setpoint of its class
C38_Witness ==
    /\ adjustment_count = 1
    /\ cluster["p2"].phase = "Running"
    /\ tick.outcome = "unchanged"
    /\ tick.new = Some(<< hp_weight, lp_weight >>)
    /\ "p2" \in Range(tick.hp_pods) \cup Range(tick.lp_pods)
    /\ io_weight_file["p2"] = Some(100)
    /\ setpoint_of("p2") # 100

\* a second adjustment wrote the file of the pod that had started after the
\* first one
C38_WrittenBySecondAdjustment ==
    /\ adjustment_count = 2
    /\ cluster["p2"].phase = "Running"
    /\ tick.outcome = "applied"
    /\ io_weight_file["p2"] = Some(setpoint_of("p2"))
    /\ io_weight_file["p2"] # Some(100)

\* --------------------------------------------------------------------------
\* Weight controller: the adjustment counter counts the changes of setpoint
\* --------------------------------------------------------------------------
\* C39: the adjustment counter equals the number of times the stored setpoint
\* has changed: a step increments adjustment_count, by one, exactly when it
\* changes (hp_weight, lp_weight) to a different pair, and
\* last_adjustment_time is unset exactly while the counter is 0.
C39_CounterCountsChanges ==
    [][ /\ adjustment_count' \in { adjustment_count, adjustment_count + 1 }
        /\ adjustment_count' # adjustment_count
              <=> << hp_weight', lp_weight' >> # << hp_weight, lp_weight >>
        /\ last_adjustment_time = None <=> adjustment_count = 0
        /\ last_adjustment_time' = None <=> adjustment_count' = 0 ]_vars

\* two adjustments were committed, the second one to a pair other than the
\* initial one
C39_Witness ==
    /\ adjustment_count = 2
    /\ tick.outcome = "applied"
    /\ last_adjustment_time # None
    /\ tick.new = Some(<< hp_weight, lp_weight >>)
    /\ << hp_weight, lp_weight >> # << 500, 500 >>

\* --------------------------------------------------------------------------
\* Weight controller: the cooldown ends
\* --------------------------------------------------------------------------
\* the tick discovered an HP pod and sampled a latency whose band is not that
\* of the stored setpoint
DiffersFromStored ==
    /\ tick'.hp_pods # << >>
    /\ tick'.latency # None
    /\ tick'.new # None
    /\ tick'.new[1] # << hp_weight, lp_weight >>

\* the cooldown test of a tick at time `now` lets the tick through
CooldownOver ==
    \/ last_adjustment_time = None
    \/ now - last_adjustment_time[1] >= ADJUSTMENT_COOLDOWN

\* C40: when every tick discovers an HP pod and samples a latency whose band
\* differs from the stored setpoint, the cooldown cannot suppress the
\* adjustment forever: the clock moves on with every tick while the timestamp
\* of the last adjustment stays, so the time since that adjustment grows from
\* tick to tick, and such a tick commits the setpoint of the sampled band as
\* soon as that time has reached the cooldown.
C40_CooldownEnds ==
    [][ IsIteration =>
          /\ now' > now
          /\ adjustment_count' = adjustment_count
                => last_adjustment_time' = last_adjustment_time
          /\ (DiffersFromStored /\ CooldownOver)
                => /\ tick'.outcome = "applied"
                   /\ << hp_weight', lp_weight' >> = tick'.new[1]
                   /\ adjustment_count' = adjustment_count + 1 ]_vars

\* the third tick, at least the cooldown after the first adjustment, committed
\* a second adjustment to the band it sampled
C40_Witness ==
    /\ iteration = 3
    /\ adjustment_count = 2
    /\ tick.outcome = "applied"
    /\ tick.hp_pods # << >>
    /\ tick.new = Some(<< hp_weight, lp_weight >>)
    /\ metrics.drcio_adjustments_total = 2

====
